---- MODULE Spec2Model ----
(***************************************************************************)
(* Ingredient normalisation and vegan / keto classification of            *)
(* nitay510/search_by_ingredients: the web module                         *)
(* (web/src/diet_classifiers.py) and the nb evaluation module             *)
(* (nb/src/diet_classifiers.py).                                          *)
(*                                                                         *)
(* Python strings are TLA+ strings, read one character at a time with     *)
(* SubSeq(s, i, i).  Regular expressions are modelled by the scan the re  *)
(* module performs (leftmost match, non-overlapping, left to right).      *)
(***************************************************************************)
EXTENDS Integers, Sequences, FiniteSets, TLC

VARIABLES
    module,      \* which module the process runs: "web", "nb", or a pure-function harness
    KETO_MODEL,  \* the loaded keto classifier, or None
    VEGAN_MODEL, \* the loaded vegan classifier, or None
    TAGGER,      \* the part-of-speech model behind NLP (fixed for the process)
    VOCAB,       \* the module-level sets VEGAN_BLOCK, PLANT_BASES, KETO_BLOCK, KETO_ALLOW
    _KETO_MAP,   \* nb: raw ingredient -> keto verdict
    _VEGAN_MAP,  \* nb: raw ingredient -> vegan verdict
    preds,       \* nb: the keto_pred / vegan_pred columns _main computes
    call         \* the operation in progress or just completed, with its result

vars == <<module, KETO_MODEL, VEGAN_MODEL, TAGGER, VOCAB, _KETO_MAP, _VEGAN_MAP, preds, call>>

\* Python None
None == [none |-> TRUE]

(***************************************************************************)
(* Characters                                                              *)
(***************************************************************************)
Chr(s, i) == SubSeq(s, i, i)

Chars(s) == {Chr(s, i) : i \in 1..Len(s)}

ASCII_LOWER == "abcdefghijklmnopqrstuvwxyz"

ASCII_UPPER == "ABCDEFGHIJKLMNOPQRSTUVWXYZ"

DIGITS == "0123456789"

\* string.punctuation (without the grave accent, which no string of the model holds)
PUNCTUATION == "!\"#$%&'()*+,-./:;<=>?@[\\]^_{|}~"

\* the characters \s matches among those the model uses
WHITESPACE == " \t\n\r\f"

IsDigit(c) == c \in Chars(DIGITS)

IsSpace(c) == c \in Chars(WHITESPACE)

\* \w on text: letters, digits, underscore (the accented letter is a letter too)
IsWordChar(c) ==
    c \in Chars(ASCII_LOWER) \cup Chars(ASCII_UPPER) \cup Chars(DIGITS) \cup {"_", "é", "ø"}

\* str.lower() of one ASCII character
Lower(c) ==
    IF c \in Chars(ASCII_UPPER)
    THEN Chr(ASCII_LOWER, CHOOSE i \in 1..Len(ASCII_UPPER) : Chr(ASCII_UPPER, i) = c)
    ELSE c

RECURSIVE LowerStr(_)
LowerStr(s) == IF s = "" THEN "" ELSE Lower(Chr(s, 1)) \o LowerStr(Tail(s))

\* s[i:] starts with p
StartsAt(s, i, p) == i + Len(p) - 1 <= Len(s) /\ SubSeq(s, i, i + Len(p) - 1) = p

\* p in s (Python substring test)
Contains(s, p) == \E i \in 1..(Len(s) + 1) : StartsAt(s, i, p)

(***************************************************************************)
(* Quantity / unit / descriptor vocabularies                               *)
(***************************************************************************)
\* the vulgar fraction glyphs - the alphabet of the model holds the three of
\* Latin-1 (one quarter, one half, three quarters) and the other six behave alike
FRACTIONS == "¼½¾"

\* the words UNITS_RE matches between two \b
UNITS_RE ==
    {"cup", "cups", "tbsp", "tablespoon", "tablespoons", "tbs", "tsp", "teaspoon",
     "teaspoons", "lb", "lbs", "pound", "pounds", "oz", "ounce", "ounces", "gram",
     "grams", "kg", "kilogram", "kilograms", "ml", "l", "liter", "liters", "pint",
     "pints", "pt", "quart", "quarts", "qt", "gal", "gallon", "gallons", "inch",
     "inches"}

\* the words REMOVE_RE matches between two \b
REMOVE_RE ==
    {"fresh", "large", "medium", "small", "whole", "boneless", "skinless", "washed",
     "peeled", "pitted", "chopped", "diced", "sliced", "shredded", "grated", "minced",
     "crushed", "trimmed", "cleaned", "piece", "pieces", "slice", "slices", "pinch",
     "dash", "taste", "optional", "bite", "head", "bay", "leaf"}

(***************************************************************************)
(* _fast_scrub, step by step                                               *)
(***************************************************************************)
\* index of the first ")" at or after i, 0 when there is none
RECURSIVE FirstClose(_, _)
FirstClose(t, i) ==
    IF i > Len(t) THEN 0
    ELSE IF Chr(t, i) = ")" THEN i
    ELSE FirstClose(t, i + 1)

\* re.sub(r"\([^)]*inch[^)]*\)", " ", t, flags=re.I), scanning from i
RECURSIVE ParenInchFrom(_, _)
ParenInchFrom(t, i) ==
    IF i > Len(t) THEN ""
    ELSE LET j == IF Chr(t, i) = "(" THEN FirstClose(t, i + 1) ELSE 0
         IN  IF j > 0 /\ Contains(LowerStr(SubSeq(t, i + 1, j - 1)), "inch")
             THEN " " \o ParenInchFrom(t, j + 1)
             ELSE Chr(t, i) \o ParenInchFrom(t, i + 1)

\* unicodedata.normalize("NFKD", c).encode("ascii", "ignore").decode() of one character
NfkdAscii(c) ==
    CASE c = "¼" -> "14" [] c = "½" -> "12" [] c = "¾" -> "34"
      [] c = "é" -> "e"
      [] c = "ø" -> ""
      [] OTHER -> c

\* NFKD, ASCII-only, lowercase
RECURSIVE FoldLower(_)
FoldLower(t) ==
    IF t = "" THEN "" ELSE LowerStr(NfkdAscii(Chr(t, 1))) \o FoldLower(Tail(t))

\* last index of the run of \w characters that starts at i
RECURSIVE WordEnd(_, _)
WordEnd(t, i) ==
    IF i < Len(t) /\ IsWordChar(Chr(t, i + 1)) THEN WordEnd(t, i + 1) ELSE i

\* re.compile(r"\b(?:w1|w2|...)\b", re.I).sub(" ", t): a match starts and ends at a
\* word boundary, so it is a whole maximal run of \w characters that is one of the words
RECURSIVE WordsSubFrom(_, _, _)
WordsSubFrom(t, i, words) ==
    IF i > Len(t) THEN ""
    ELSE IF IsWordChar(Chr(t, i))
         THEN LET j == WordEnd(t, i)
                  w == SubSeq(t, i, j)
              IN  (IF LowerStr(w) \in words THEN " " ELSE w) \o WordsSubFrom(t, j + 1, words)
         ELSE Chr(t, i) \o WordsSubFrom(t, i + 1, words)

\* last index of the run of digits that starts at i
RECURSIVE DigitsEnd(_, _)
DigitsEnd(t, i) ==
    IF i < Len(t) /\ IsDigit(Chr(t, i + 1)) THEN DigitsEnd(t, i + 1) ELSE i

\* last index of the match of NUM = \d+(?:[./]\d+)?|[FRACTIONS] at i, 0 when none
NumEnd(t, i) ==
    IF i > Len(t) THEN 0
    ELSE IF IsDigit(Chr(t, i))
         THEN LET j == DigitsEnd(t, i)
              IN  IF j + 2 <= Len(t) /\ Chr(t, j + 1) \in {".", "/"} /\ IsDigit(Chr(t, j + 2))
                  THEN DigitsEnd(t, j + 2)
                  ELSE j
         ELSE IF Chr(t, i) \in Chars(FRACTIONS) THEN i
         ELSE 0

\* re.sub(NUM, " ", t), scanning from i
RECURSIVE NumSubFrom(_, _)
NumSubFrom(t, i) ==
    IF i > Len(t) THEN ""
    ELSE LET j == NumEnd(t, i)
         IN  IF j > 0 THEN " " \o NumSubFrom(t, j + 1)
             ELSE Chr(t, i) \o NumSubFrom(t, i + 1)

\* t.translate(PUNCT_TR): every punctuation character but the hyphen becomes a space
RECURSIVE PunctTr(_)
PunctTr(t) ==
    IF t = "" THEN ""
    ELSE (IF Chr(t, 1) \in Chars(PUNCTUATION) \ {"-"} THEN " " ELSE Chr(t, 1))
         \o PunctTr(Tail(t))

\* re.sub(r"\s+", " ", t)
RECURSIVE CollapseFrom(_, _)
CollapseFrom(t, i) ==
    IF i > Len(t) THEN ""
    ELSE IF IsSpace(Chr(t, i))
         THEN IF i < Len(t) /\ IsSpace(Chr(t, i + 1))
              THEN CollapseFrom(t, i + 1)
              ELSE " " \o CollapseFrom(t, i + 1)
         ELSE Chr(t, i) \o CollapseFrom(t, i + 1)

\* str.strip()
RECURSIVE LStrip(_)
LStrip(t) == IF t # "" /\ IsSpace(Chr(t, 1)) THEN LStrip(Tail(t)) ELSE t

RECURSIVE RStrip(_)
RStrip(t) ==
    IF t # "" /\ IsSpace(Chr(t, Len(t))) THEN RStrip(SubSeq(t, 1, Len(t) - 1)) ELSE t

Strip(t) == RStrip(LStrip(t))

\* a plausible slip: only the first quantity is removed (count=1)
NumSubFirstOnly(t) ==
    LET hits == {i \in 1..Len(t) : NumEnd(t, i) > 0}
    IN  IF hits = {} THEN t
        ELSE LET i == CHOOSE h \in hits : \A g \in hits : h <= g
             IN  SubSeq(t, 1, i - 1) \o " " \o SubSeq(t, NumEnd(t, i) + 1, Len(t))

NumSub(t) == NumSubFrom(t, 1)

_fast_scrub(raw) ==
    LET t1 == ParenInchFrom(raw, 1)
        t2 == FoldLower(t1)
        t3 == WordsSubFrom(t2, 1, UNITS_RE)
        t4 == NumSub(t3)
        t5 == PunctTr(t4)
        t6 == WordsSubFrom(t5, 1, REMOVE_RE)
    IN  Strip(CollapseFrom(t6, 1))

(***************************************************************************)
(* str.split, str.join                                                     *)
(***************************************************************************)
\* last index of the run of non-whitespace characters that starts at i
RECURSIVE NonSpaceEnd(_, _)
NonSpaceEnd(t, i) ==
    IF i < Len(t) /\ ~IsSpace(Chr(t, i + 1)) THEN NonSpaceEnd(t, i + 1) ELSE i

\* t[i:].split(): the whitespace-separated words, none of them empty
RECURSIVE SplitFrom(_, _)
SplitFrom(t, i) ==
    IF i > Len(t) THEN <<>>
    ELSE IF IsSpace(Chr(t, i)) THEN SplitFrom(t, i + 1)
    ELSE LET j == NonSpaceEnd(t, i)
         IN  <<SubSeq(t, i, j)>> \o SplitFrom(t, j + 1)

Split(t) == SplitFrom(t, 1)

\* sep.join(words)
RECURSIVE Join(_, _)
Join(words, sep) ==
    IF words = <<>> THEN ""
    ELSE IF Len(words) = 1 THEN words[1]
    ELSE words[1] \o sep \o Join(Tail(words), sep)

Range(f) == {f[i] : i \in DOMAIN f}

(***************************************************************************)
(* spaCy: NLP(text), an external tagger.  Tokens are the whitespace words, *)
(* with every hyphen a token of its own; the tag of a token is fixed by    *)
(* the loaded model TAGGER; the lemma strips a plural ending.              *)
(***************************************************************************)
KEEP_POS == {"NOUN", "PROPN"}

\* last index of the run of non-hyphen characters that starts at i
RECURSIVE NonHyphenEnd(_, _)
NonHyphenEnd(w, i) ==
    IF i < Len(w) /\ Chr(w, i + 1) # "-" THEN NonHyphenEnd(w, i + 1) ELSE i

RECURSIVE TokenizeWord(_, _)
TokenizeWord(w, i) ==
    IF i > Len(w) THEN <<>>
    ELSE IF Chr(w, i) = "-" THEN <<"-">> \o TokenizeWord(w, i + 1)
    ELSE LET j == NonHyphenEnd(w, i)
         IN  <<SubSeq(w, i, j)>> \o TokenizeWord(w, j + 1)

RECURSIVE Tokenize(_)
Tokenize(words) ==
    IF words = <<>> THEN <<>>
    ELSE TokenizeWord(words[1], 1) \o Tokenize(Tail(words))

EndsWith(s, p) == Len(p) <= Len(s) /\ SubSeq(s, Len(s) - Len(p) + 1, Len(s)) = p

StartsWith(s, p) == StartsAt(s, 1, p)

\* tok.lemma_ of a noun: the singular
Lemma(tok) ==
    IF Len(tok) > 4 /\ EndsWith(tok, "ies") THEN SubSeq(tok, 1, Len(tok) - 3) \o "y"
    ELSE IF Len(tok) > 3 /\ EndsWith(tok, "s") /\ ~EndsWith(tok, "ss")
         THEN SubSeq(tok, 1, Len(tok) - 1)
    ELSE tok

\* tok.pos_
PosOf(tok) ==
    IF tok = "-" THEN "PUNCT"
    ELSE IF tok \in DOMAIN TAGGER THEN TAGGER[tok]
    ELSE "NOUN"

NLP(text) ==
    LET toks == Tokenize(Split(text))
    IN  [i \in 1..Len(toks) |->
            [text |-> toks[i], pos_ |-> PosOf(toks[i]),
             lemma_ |-> IF PosOf(toks[i]) \in KEEP_POS THEN Lemma(toks[i]) ELSE toks[i]]]

(***************************************************************************)
(* _to_key_phrases, preprocess                                             *)
(***************************************************************************)
\* a plausible slip: the flush has no upper limit on the length of the run
FlushAnyLength(buff, out) ==
    IF 0 < Len(buff) THEN Append(out, Join(buff, " ")) ELSE out

\* the flush of the buffer: a run of 1 to 3 noun tokens is one phrase
Flush(buff, out) ==
    IF 0 < Len(buff) /\ Len(buff) <= 3 THEN Append(out, Join(buff, " ")) ELSE out

\* the for loop over the tokens of the doc, from token i on
RECURSIVE KeyPhraseLoop(_, _, _, _)
KeyPhraseLoop(doc, i, buff, out) ==
    IF i > Len(doc) THEN Flush(buff, out)
    ELSE IF doc[i].pos_ \in KEEP_POS
         THEN KeyPhraseLoop(doc, i + 1, Append(buff, LowerStr(doc[i].lemma_)), out)
         ELSE KeyPhraseLoop(doc, i + 1, <<>>, Flush(buff, out))

\* _to_key_phrases with the doc NLP(text) passed in
KeyPhrases(doc, text) ==
    LET out == KeyPhraseLoop(doc, 1, <<>>, <<>>)
    IN  IF out # <<>> THEN Join(out, " ") ELSE text

_to_key_phrases(text) == KeyPhrases(NLP(text), text)

preprocess(raw) == _to_key_phrases(_fast_scrub(raw))

(***************************************************************************)
(* Vocabularies                                                            *)
(***************************************************************************)
\* KETO_ALLOW of the web module
WEB_KETO_ALLOW ==
    {"avocado", "bacon", "olive oil", "egg", "butter", "cream", "cheese",
     "almond", "coconut", "stevia", "erythritol", "mushroom", "pesto",
     "cilantro", "shallot", "asparagus", "artichoke", "bay leaf", "sherry",
     "lemon", "ginger", "green bean", "spinach", "vinegar", "olive",
     "walnut", "caper", "lime juice", "salmon fillet", "flank steak",
     "anchovy fillet", "vodka", "liqueur", "ice", "yogurt", "bean"}

\* KETO_ALLOW of the nb module
NB_KETO_ALLOW ==
    {"avocado", "bacon", "olive oil", "egg", "butter", "cream",
     "cheese", "almond", "coconut", "stevia", "erythritol",
     "mushroom", "pesto", "cilantro", "shallot", "asparagus",
     "artichoke", "bay leaf", "sherry", "lemon", "ginger root",
     "green bean", "spinach", "vinegar", "olive", "walnut", "caper",
     "lime juice", "salmon fillet", "flank steak", "anchovy fillet",
     "vodka", "liqueur", "ice", "pepper sauce", "sweetener", "yogurt", "bean"}

\* the sets as the module defines them (web lines 23-44, nb lines 23-37); the two
\* modules differ in KETO_ALLOW only
Vocabulary(m) ==
    [VEGAN_BLOCK |->
        {"egg", "cheese", "butter", "cream", "yogurt", "honey",
         "anchovy", "chicken", "beef", "shrimp", "sausage"},
     PLANT_BASES |->
        {"almond", "cashew", "soy", "oat", "rice", "coconut",
         "hemp", "macadamia", "peanut", "walnut", "hazelnut"},
     KETO_BLOCK |->
        {"sugar", "flour", "rice", "pasta", "bread", "potato", "corn",
         "oats", "lentils", "banana", "apple", "orange", "carrot", "honey",
         "jam", "cereal", "cooking spray"},
     KETO_ALLOW |-> IF m = "nb" THEN NB_KETO_ALLOW ELSE WEB_KETO_ALLOW]

\* the sets are mutable module globals: a function reads their current value
VEGAN_BLOCK == VOCAB.VEGAN_BLOCK

PLANT_BASES == VOCAB.PLANT_BASES

KETO_BLOCK == VOCAB.KETO_BLOCK

KETO_ALLOW == VOCAB.KETO_ALLOW

(***************************************************************************)
(* The fallback classifier: a TF-IDF + LinearSVC pipeline, so its          *)
(* prediction depends on the tokens of the phrase only.  A loaded model is *)
(* [bias, flip]: it predicts bias, flipped when a token of flip occurs.    *)
(***************************************************************************)
PredictOne(model, norm) ==
    IF \E i \in DOMAIN Split(norm) : Split(norm)[i] \in model.flip
    THEN 1 - model.bias
    ELSE model.bias

\* a loaded pipeline may carry raises: phrases with one of these tokens make its
\* predict raise (a pickle written by another version of the library)
Faulty(model, cleans) ==
    /\ "raises" \in DOMAIN model
    /\ \E i \in DOMAIN cleans : \E j \in DOMAIN Split(cleans[i]) :
           Split(cleans[i])[j] \in model.raises

\* model.predict(cleans): one 0/1 per phrase; on None the attribute lookup raises
Predict(model, cleans) ==
    IF model = None \/ Faulty(model, cleans)
    THEN [raised |-> TRUE, val |-> <<>>]
    ELSE [raised |-> FALSE, val |-> [i \in DOMAIN cleans |-> PredictOne(model, cleans[i])]]

\* the truth value of a model reference: None is falsy, a loaded pipeline truthy
Truthy(model) == model # None

\* bool(p) of a 0/1 prediction
Bool(p) == p # 0

(***************************************************************************)
(* web: is_ingredient_keto, is_ingredient_vegan, is_keto, is_vegan         *)
(* A result is [raised, ret, log]: log holds the records the call emitted. *)
(***************************************************************************)
Returned(v, level, tag) ==
    [raised |-> FALSE, ret |-> v, log |-> <<[level |-> level, tag |-> tag]>>]

Raised == [raised |-> TRUE, ret |-> None, log |-> <<>>]

AnyIn(toks, vocab) == \E i \in DOMAIN toks : toks[i] \in vocab

\* a plausible slip: the model is consulted without the test that it loaded
WebKetoFallbackUnguarded(norm) ==
    LET p == Predict(KETO_MODEL, <<norm>>)
    IN  IF p.raised THEN Raised ELSE Returned(Bool(p.val[1]), "DEBUG", "KETO-SVM")

\* the model branch of is_ingredient_keto (web lines 119-125)
WebKetoFallback(norm) ==
    IF Truthy(KETO_MODEL)
    THEN LET p == Predict(KETO_MODEL, <<norm>>)
         IN  IF p.raised THEN Raised ELSE Returned(Bool(p.val[1]), "DEBUG", "KETO-SVM")
    ELSE Returned(FALSE, "DEBUG", "KETO-DEFAULT")

\* a plausible slip: a memo of the ingredients seen answers False for a repeated one
web_is_ingredient_keto_memo(raw) ==
    LET norm == preprocess(raw)
        toks == Split(norm)
    IN  IF call.op = "first" /\ call.arg = raw THEN Returned(FALSE, "DEBUG", "KETO-MEMO")
        ELSE IF AnyIn(toks, KETO_BLOCK) THEN Returned(FALSE, "DEBUG", "KETO-BLOCK")
        ELSE IF AnyIn(toks, KETO_ALLOW) THEN Returned(TRUE, "DEBUG", "KETO-ALLOW")
        ELSE WebKetoFallback(norm)

web_is_ingredient_keto(raw) ==
    LET norm == preprocess(raw)
        toks == Split(norm)
    IN  IF AnyIn(toks, KETO_BLOCK) THEN Returned(FALSE, "DEBUG", "KETO-BLOCK")
        ELSE IF AnyIn(toks, KETO_ALLOW) THEN Returned(TRUE, "DEBUG", "KETO-ALLOW")
        ELSE WebKetoFallback(norm)

\* the model branch of is_ingredient_vegan (web lines 139-145)
WebVeganFallback(norm) ==
    IF Truthy(VEGAN_MODEL)
    THEN LET p == Predict(VEGAN_MODEL, <<norm>>)
         IN  IF p.raised THEN Raised ELSE Returned(Bool(p.val[1]), "DEBUG", "VEGAN-SVM")
    ELSE Returned(FALSE, "WARNING", "VEGAN-DEFAULT")

\* a plausible slip: the block test is made before the plant-base test
web_is_ingredient_vegan_block_first(raw) ==
    LET norm == preprocess(raw)
        toks == Split(norm)
    IN  IF AnyIn(toks, VEGAN_BLOCK) THEN Returned(FALSE, "DEBUG", "VEGAN-BLOCK")
        ELSE IF toks # <<>> /\ toks[1] \in PLANT_BASES
             THEN Returned(TRUE, "DEBUG", "VEGAN-PLANT")
             ELSE WebVeganFallback(norm)

web_is_ingredient_vegan(raw) ==
    LET norm == preprocess(raw)
        toks == Split(norm)
    IN  IF toks # <<>> /\ toks[1] \in PLANT_BASES THEN Returned(TRUE, "DEBUG", "VEGAN-PLANT")
        ELSE IF AnyIn(toks, VEGAN_BLOCK) THEN Returned(FALSE, "DEBUG", "VEGAN-BLOCK")
        ELSE WebVeganFallback(norm)

RECURSIVE ConcatLogs(_, _)
ConcatLogs(results, k) ==
    IF k = 0 THEN <<>> ELSE ConcatLogs(results, k - 1) \o results[k].log

\* a plausible slip: only the first item decides
AllFirstOnly(results) ==
    IF results = <<>> \/ (~results[1].raised /\ results[1].ret)
    THEN [raised |-> FALSE, ret |-> TRUE, consumed |-> Len(results),
          log |-> ConcatLogs(results, Len(results))]
    ELSE [raised |-> results[1].raised,
          ret |-> IF results[1].raised THEN None ELSE FALSE,
          consumed |-> 1, log |-> results[1].log]

\* a plausible slip: an empty recipe is rejected
AllNonEmpty(results) ==
    LET stops == {i \in DOMAIN results : results[i].raised \/ ~results[i].ret}
    IN  IF results = <<>>
        THEN [raised |-> FALSE, ret |-> FALSE, consumed |-> 0, log |-> <<>>]
        ELSE IF stops = {}
        THEN [raised |-> FALSE, ret |-> TRUE, consumed |-> Len(results),
              log |-> ConcatLogs(results, Len(results))]
        ELSE LET k == CHOOSE i \in stops : \A j \in stops : i <= j
             IN  [raised |-> results[k].raised,
                  ret |-> IF results[k].raised THEN None ELSE FALSE,
                  consumed |-> k, log |-> ConcatLogs(results, k)]

\* a plausible slip: a list is built first, so every item is evaluated
AllEager(results) ==
    [raised |-> \E i \in DOMAIN results : results[i].raised,
     ret |-> IF \E i \in DOMAIN results : results[i].raised THEN None
             ELSE \A i \in DOMAIN results : results[i].ret,
     consumed |-> Len(results), log |-> ConcatLogs(results, Len(results))]

\* all(gen): the generator is consumed in order up to the first falsy item (or the
\* first item whose evaluation raises); consumed counts the items evaluated
All(results) ==
    LET stops == {i \in DOMAIN results : results[i].raised \/ ~results[i].ret}
    IN  IF stops = {}
        THEN [raised |-> FALSE, ret |-> TRUE, consumed |-> Len(results),
              log |-> ConcatLogs(results, Len(results))]
        ELSE LET k == CHOOSE i \in stops : \A j \in stops : i <= j
             IN  [raised |-> results[k].raised,
                  ret |-> IF results[k].raised THEN None ELSE FALSE,
                  consumed |-> k, log |-> ConcatLogs(results, k)]

web_is_keto(ings) == All([i \in DOMAIN ings |-> web_is_ingredient_keto(ings[i])])

web_is_vegan(ings) == All([i \in DOMAIN ings |-> web_is_ingredient_vegan(ings[i])])

(***************************************************************************)
(* nb: to_list                                                             *)
(* A cell is [kind |-> "list", items], [kind |-> "str", text] or           *)
(* [kind |-> "other"] (None, a float NaN).  A result is [raised, ret].     *)
(***************************************************************************)
UNITS_LIST ==
    <<"cup", "cups", "tbsp", "tablespoon", "tablespoons", "tbs", "tsp", "teaspoon",
      "teaspoons", "pound", "pounds", "lb", "lbs", "ounce", "ounces", "oz",
      "gram", "grams", "kg", "kilogram", "kilograms", "ml", "l", "liter", "liters",
      "pint", "pints", "pt", "quart", "quarts", "qt", "gal", "gallon", "gallons",
      "inch", "inches">>

\* index of the first c at or after i, 0 when there is none
RECURSIVE FirstIndexOf(_, _, _)
FirstIndexOf(t, i, c) ==
    IF i > Len(t) THEN 0
    ELSE IF Chr(t, i) = c THEN i
    ELSE FirstIndexOf(t, i + 1, c)

\* first index at or after i that holds no whitespace, Len(t) + 1 when there is none
RECURSIVE SkipSpace(_, _)
SkipSpace(t, i) ==
    IF i <= Len(t) /\ IsSpace(Chr(t, i)) THEN SkipSpace(t, i + 1) ELSE i

\* SINGLE_QUOTED.findall(t): the contents of '...' with at least one character
RECURSIVE FindQuoted(_, _)
FindQuoted(t, i) ==
    IF i > Len(t) THEN <<>>
    ELSE IF Chr(t, i) = "'"
         THEN LET j == FirstIndexOf(t, i + 1, "'")
              IN  IF j > i + 1
                  THEN <<SubSeq(t, i + 1, j - 1)>> \o FindQuoted(t, j + 1)
                  ELSE FindQuoted(t, i + 1)
         ELSE FindQuoted(t, i + 1)

\* a plausible slip: the items are returned untrimmed
KeepEach(items) == items

StripEach(items) == [i \in DOMAIN items |-> Strip(items[i])]

Malformed == [raised |-> TRUE, val |-> <<>>]

\* str(x) of one element literal starting at i: a decimal integer or a quoted string
\* without escapes; [ok, str, next].  Any other element is malformed (a name, a
\* fraction a/b); float literals are outside the cells of the model.
ElementAt(t, i) ==
    IF IsDigit(Chr(t, i))
    THEN LET j == DigitsEnd(t, i)
             lit == SubSeq(t, i, j)
             zeros == \A k \in i..j : Chr(t, k) = "0"
         IN  IF Chr(t, i) = "0" /\ ~zeros
             THEN [ok |-> FALSE, str |-> "", next |-> i]
             ELSE [ok |-> TRUE, str |-> IF zeros THEN "0" ELSE lit, next |-> j + 1]
    ELSE IF Chr(t, i) \in {"'", "\""}
         THEN LET j == FirstIndexOf(t, i + 1, Chr(t, i))
                  body == SubSeq(t, i + 1, j - 1)
              IN  IF j = 0 \/ Contains(body, "\\") \/ Contains(body, "\n")
                  THEN [ok |-> FALSE, str |-> "", next |-> i]
                  ELSE [ok |-> TRUE, str |-> body, next |-> j + 1]
    ELSE [ok |-> FALSE, str |-> "", next |-> i]

\* the elements of a list display, from index i of its inside
RECURSIVE ParseElems(_, _, _)
ParseElems(t, i, acc) ==
    LET a == SkipSpace(t, i)
    IN  IF a > Len(t) THEN [raised |-> FALSE, val |-> acc]
        ELSE LET e == ElementAt(t, a)
                 k == SkipSpace(t, e.next)
             IN  IF ~e.ok THEN Malformed
                 ELSE IF k > Len(t) THEN [raised |-> FALSE, val |-> Append(acc, e.str)]
                 ELSE IF Chr(t, k) = "," THEN ParseElems(t, k + 1, Append(acc, e.str))
                 ELSE Malformed

\* [str(x) for x in ast.literal_eval(txt)] of a text that starts with [ and ends with ]
LiteralEval(txt) == ParseElems(SubSeq(txt, 2, Len(txt) - 1), 1, <<>>)

\* SPLIT_QTY.sub("\n", t): a newline before every quantity that is not at the start
RECURSIVE SplitQtyFrom(_, _)
SplitQtyFrom(t, i) ==
    IF i > Len(t) THEN ""
    ELSE (IF i > 1 /\ NumEnd(t, i) > 0 THEN "\n" ELSE "")
         \o Chr(t, i) \o SplitQtyFrom(t, i + 1)

\* last index of the run of newlines and commas that starts at i
RECURSIVE SepEnd(_, _)
SepEnd(t, i) ==
    IF i < Len(t) /\ Chr(t, i + 1) \in {"\n", ","} THEN SepEnd(t, i + 1) ELSE i

\* re.split(r"[\n,]+", t), from index i, cur being the field read so far
RECURSIVE ReSplitFrom(_, _, _)
ReSplitFrom(t, i, cur) ==
    IF i > Len(t) THEN <<cur>>
    ELSE IF Chr(t, i) \in {"\n", ","}
         THEN <<cur>> \o ReSplitFrom(t, SepEnd(t, i) + 1, "")
         ELSE ReSplitFrom(t, i + 1, cur \o Chr(t, i))

\* the first unit of UNITS_LIST, in list order, that p[k:] starts with (re.I); 0 if none
UnitAt(p, k) ==
    LET hits == {u \in DOMAIN UNITS_LIST :
                    /\ k + Len(UNITS_LIST[u]) - 1 <= Len(p)
                    /\ LowerStr(SubSeq(p, k, k + Len(UNITS_LIST[u]) - 1)) = UNITS_LIST[u]}
    IN  IF hits = {} THEN 0 ELSE CHOOSE u \in hits : \A v \in hits : u <= v

\* LEADING_QTY.sub("", p), scanning from i.  NUM is spliced into the pattern without
\* a group, so the pattern is the alternation of
\*     ^\s*\d+(?:[./]\d+)?            (only at the start, and no unit after it)
\*     [FRACTIONS]\s*(?:units)?\s*    (anywhere in p)
RECURSIVE LeadingQtyFrom(_, _)
LeadingQtyFrom(p, i) ==
    IF i > Len(p) THEN ""
    ELSE LET a == SkipSpace(p, 1)
         IN  IF i = 1 /\ a <= Len(p) /\ IsDigit(Chr(p, a))
             THEN LeadingQtyFrom(p, NumEnd(p, a) + 1)
             ELSE IF Chr(p, i) \in Chars(FRACTIONS)
                  THEN LET k == SkipSpace(p, i + 1)
                           u == UnitAt(p, k)
                           k2 == IF u = 0 THEN k ELSE k + Len(UNITS_LIST[u])
                       IN  LeadingQtyFrom(p, SkipSpace(p, k2))
                  ELSE Chr(p, i) \o LeadingQtyFrom(p, i + 1)

LeadingQty(p) == LeadingQtyFrom(p, 1)

\* the quantity / comma / newline split (nb lines 101-104)
FallbackSplit(txt) ==
    LET pieces == ReSplitFrom(SplitQtyFrom(txt, 1), 1, "")
        parts == [i \in DOMAIN pieces |-> Strip(LeadingQty(pieces[i]))]
    IN  SelectSeq(parts, LAMBDA q : q # "")

\* a plausible slip: the except clause is missing, so a parse failure propagates
TryLiteralNoExcept(txt) ==
    LET lit == LiteralEval(txt)
    IN  [done |-> TRUE, raised |-> lit.raised, ret |-> StripEach(lit.val)]

\* the try / except around ast.literal_eval (nb lines 97-100)
TryLiteral(txt) ==
    LET lit == LiteralEval(txt)
    IN  IF lit.raised
        THEN [done |-> FALSE, raised |-> FALSE, ret |-> <<>>]
        ELSE [done |-> TRUE, raised |-> FALSE, ret |-> StripEach(lit.val)]

to_list(cell) ==
    IF cell.kind = "list" THEN [raised |-> FALSE, ret |-> cell.items]
    ELSE IF cell.kind # "str" THEN [raised |-> FALSE, ret |-> <<>>]
    ELSE LET txt == Strip(cell.text)
             bracketed == StartsWith(txt, "[") /\ EndsWith(txt, "]")
             hits == FindQuoted(txt, 1)
             lit == TryLiteral(txt)
         IN  IF bracketed /\ hits # <<>>
             THEN [raised |-> FALSE, ret |-> StripEach(hits)]
             ELSE IF bracketed /\ Contains(txt, ",") /\ lit.done
                  THEN [raised |-> lit.raised, ret |-> lit.ret]
                  ELSE [raised |-> FALSE, ret |-> FallbackSplit(txt)]

(***************************************************************************)
(* nb: the verdict maps, is_ingredient_*, is_* and _main                   *)
(***************************************************************************)
NbReturned(v) == [raised |-> FALSE, ret |-> v, log |-> <<>>]

\* a plausible slip: the default of the lookup is True
MapGetDefaultTrue(a_map, raw) == IF raw \in DOMAIN a_map THEN a_map[raw] ELSE TRUE

\* a_map.get(raw, False)
MapGet(a_map, raw) == IF raw \in DOMAIN a_map THEN a_map[raw] ELSE FALSE

nb_is_ingredient_keto(raw) == NbReturned(MapGet(_KETO_MAP, raw))

nb_is_ingredient_vegan(raw) == NbReturned(MapGet(_VEGAN_MAP, raw))

\* all(map(is_ingredient, ingredients)) against a given verdict map
NbAll(a_map, ings) == All([i \in DOMAIN ings |-> NbReturned(MapGet(a_map, ings[i]))])

nb_is_keto(ings) == All([i \in DOMAIN ings |-> nb_is_ingredient_keto(ings[i])])

nb_is_vegan(ings) == All([i \in DOMAIN ings |-> nb_is_ingredient_vegan(ings[i])])

\* any(tok in c for tok in vocab): c is a string, so this is a substring test
AnySubstring(c, vocab) == \E tok \in vocab : Contains(c, tok)

\* an enumeration of a finite set (the iteration order of the dict)
RECURSIVE SetToSeq(_)
SetToSeq(S) ==
    IF S = {} THEN <<>>
    ELSE LET x == CHOOSE y \in S : TRUE
         IN  <<x>> \o SetToSeq(S \ {x})

IndexOf(seq, x) == CHOOSE i \in DOMAIN seq : seq[i] = x

\* which branch of the keto map build takes the phrase c (nb lines 155-161)
NbKetoRule(c) ==
    IF AnySubstring(c, KETO_ALLOW) THEN "allow"
    ELSE IF AnySubstring(c, KETO_BLOCK) THEN "block"
    ELSE "svm"

\* a plausible slip: the block test is made before the plant-base test
NbVeganRuleBlockFirst(c) ==
    LET toks == Split(c)
    IN  IF \E tok \in VEGAN_BLOCK : tok \in Range(toks) THEN "block"
        ELSE IF toks # <<>> /\ toks[1] \in PLANT_BASES THEN "plant"
        ELSE "svm"

\* which branch of the vegan map build takes the phrase c (nb lines 173-180)
NbVeganRule(c) ==
    LET toks == Split(c)
    IN  IF toks # <<>> /\ toks[1] \in PLANT_BASES THEN "plant"
        ELSE IF \E tok \in VEGAN_BLOCK : tok \in Range(toks) THEN "block"
        ELSE "svm"

\* the batch prediction and the setdefault of a map build: raws are the ingredients
\* left to the model (nb lines 162-168 and 181-187)
NbSvmVerdicts(model, raws, clean_map) ==
    LET svm_list == SetToSeq(raws)
        p == IF Truthy(model) /\ svm_list # <<>>
             THEN Predict(model, [i \in DOMAIN svm_list |-> clean_map[svm_list[i]]])
             ELSE [raised |-> FALSE, val |-> <<>>]
    IN  [r \in raws |-> IF p.val # <<>> THEN Bool(p.val[IndexOf(svm_list, r)]) ELSE FALSE]

\* the batch prediction of a map build raises (nb lines 163-164 and 182-183)
NbSvmRaised(model, raws, clean_map) ==
    LET svm_list == SetToSeq(raws)
    IN  /\ Truthy(model) /\ svm_list # <<>>
        /\ Predict(model, [i \in DOMAIN svm_list |-> clean_map[svm_list[i]]]).raised

\* the raw ingredients the keto / vegan map build leaves to the model
NbKetoSvm(clean_map) == {r \in DOMAIN clean_map : NbKetoRule(clean_map[r]) = "svm"}

NbVeganSvm(clean_map) == {r \in DOMAIN clean_map : NbVeganRule(clean_map[r]) = "svm"}

\* the raw ingredients whose phrases are handed to KETO_MODEL.predict and to
\* VEGAN_MODEL.predict by the map builds
NbAsked(clean_map) ==
    [keto |-> IF Truthy(KETO_MODEL) THEN NbKetoSvm(clean_map) ELSE {},
     vegan |-> IF Truthy(VEGAN_MODEL) THEN NbVeganSvm(clean_map) ELSE {}]

NbMapsRaised(clean_map) ==
    \/ NbSvmRaised(KETO_MODEL, NbKetoSvm(clean_map), clean_map)
    \/ NbSvmRaised(VEGAN_MODEL, NbVeganSvm(clean_map), clean_map)

\* clean_map of _main: the phrase of every unique raw ingredient (nb line 150)
NbCleanMap(unique) == [r \in unique |-> preprocess(r)]

\* keto_map of _main, built from clean_map (nb lines 152-168)
NbKetoMap(clean_map) ==
    LET rule == [r \in DOMAIN clean_map |-> NbKetoRule(clean_map[r])]
        svm == NbSvmVerdicts(KETO_MODEL, {r \in DOMAIN clean_map : rule[r] = "svm"},
                             clean_map)
    IN  [r \in DOMAIN clean_map |->
            CASE rule[r] = "allow" -> TRUE
              [] rule[r] = "block" -> FALSE
              [] OTHER -> svm[r]]

\* vegan_map of _main, built from clean_map (nb lines 170-187)
NbVeganMap(clean_map) ==
    LET rule == [r \in DOMAIN clean_map |-> NbVeganRule(clean_map[r])]
        svm == NbSvmVerdicts(VEGAN_MODEL, {r \in DOMAIN clean_map : rule[r] = "svm"},
                             clean_map)
    IN  [r \in DOMAIN clean_map |->
            CASE rule[r] = "plant" -> TRUE
              [] rule[r] = "block" -> FALSE
              [] OTHER -> svm[r]]

\* df["_ings"]: to_list of every cell of the ingredients column
NbIngs(column) == [i \in DOMAIN column |-> to_list(column[i]).ret]

NbUnique(column) == UNION {Range(NbIngs(column)[i]) : i \in DOMAIN column}

(***************************************************************************)
(* Inputs and bounds                                                       *)
(***************************************************************************)
MaxIngs == 2        \* longest ingredient list passed to is_keto / is_vegan

MaxRows == 1        \* rows of the dataset _main evaluates

MaxChunks == 3      \* pieces a raw string handed to _fast_scrub is made of

MaxCellChunks == 4  \* pieces a cell text handed to to_list is made of

MaxTokens == 6      \* tokens of a doc handed to the loop of _to_key_phrases

MaxRuns == 3        \* runs of preprocess recorded before the repeated call

MaxWorkers == 2     \* worker threads classifying at the same time

BoundedSeq(S, n) == UNION {[1..k -> S] : k \in 0..n}

\* all concatenations of at most n of the chunks
RECURSIVE Concats(_, _)
Concats(chunks, n) ==
    IF n = 0 THEN {""}
    ELSE LET shorter == Concats(chunks, n - 1)
         IN  shorter \cup {p \o c : p \in shorter, c \in chunks}

\* raw ingredients the web entry points are called with
Ingredients ==
    {"1 cup sugar and bacon", "cooking spray", "olive oil cooking spray",
     "1 cup almond milk", "almond butter", "2 eggs", "1 cup flour", "rice",
     "kale", "1 cup", "bacon and honey"}

\* ingredients of the lists is_keto / is_vegan are called with
RecipeIngredients == {"2 eggs", "1 cup flour", "kale", "almond butter"}

\* cells of the ingredients column read by _main (pd.read_csv gives text or NaN)
DatasetCells ==
    {[kind |-> "str", text |-> "['sugar and bacon', 'kale']"],
     [kind |-> "str", text |-> "2 eggs, 1 cup flour"],
     [kind |-> "str", text |-> "[\"cooking spray\", \"almond butter\"]"],
     [kind |-> "str", text |-> "[rice, bacon and honey]"],
     [kind |-> "other"]}

\* strings the nb entry points are called with: map keys and strings never seen
NbIngredients ==
    {"sugar and bacon", "kale", "eggs", "cup flour", "cooking spray", "almond butter",
     "[rice", "bacon and honey]", "2 eggs"}

NbRecipeIngredients == {"eggs", "kale", "sugar and bacon"}

\* pieces of the raw strings handed to _fast_scrub
ScrubChunks ==
    {"1", "/", ".", "½", "é", "L", "cup", "_", " ", "-", "(", ")", "inch", "taste",
     "divided"}

\* pieces of the cell texts handed to to_list
CellChunks == {"[", "]", "'egg'", "' '", "\"a\"", ",", " ", "1", "½ cup", "egg"}

ToListCells ==
    {[kind |-> "str", text |-> t] : t \in Concats(CellChunks, MaxCellChunks)}
    \cup {[kind |-> "list", items |-> l] : l \in BoundedSeq({"egg", " "}, MaxIngs)}
    \cup {[kind |-> "other"]}

\* predictions vary with this token
FlipTokens == {"kale"}

\* one model that always predicts 1, one that predicts 0 except on FlipTokens
Predictors == {[bias |-> 1, flip |-> {}], [bias |-> 0, flip |-> FlipTokens]}

\* both pickles load, or neither does; the two pickles are different pipelines
ModelPairs ==
    {<<None, None>>} \cup {pair \in Predictors \X Predictors : pair[1] # pair[2]}

\* tokens whose tag depends on the tagger model
TagVocabulary == {"and", "cooking"}

Taggers == [TagVocabulary -> {"NOUN", "VERB"}]

(***************************************************************************)
(* The process: module load, then calls of the entry points                *)
(***************************************************************************)
Idle == [op |-> "idle"]

Loaded(m) ==
    /\ module = m
    /\ \E pair \in ModelPairs : KETO_MODEL = pair[1] /\ VEGAN_MODEL = pair[2]
    /\ TAGGER \in Taggers
    /\ VOCAB = Vocabulary(m)
    /\ _KETO_MAP = <<>>
    /\ _VEGAN_MAP = <<>>
    /\ preds = None
    /\ call = Idle

Init == Loaded("web") \/ Loaded("nb")

\* both pickles load, and predict of either raises on the phrases with a FlipTokens token
FaultyPredictor == [bias |-> 1, flip |-> {}, raises |-> FlipTokens]

InitFaulty ==
    /\ module \in {"web", "nb"}
    /\ KETO_MODEL = FaultyPredictor /\ VEGAN_MODEL = FaultyPredictor
    /\ TAGGER \in Taggers
    /\ VOCAB = Vocabulary(module)
    /\ _KETO_MAP = <<>> /\ _VEGAN_MAP = <<>> /\ preds = None
    /\ call = Idle

Config == <<module, KETO_MODEL, VEGAN_MODEL, TAGGER, VOCAB>>

WebIsIngredientKeto(raw) ==
    /\ module = "web" /\ call = Idle
    /\ call' = [op |-> "is_ingredient_keto", arg |-> raw, res |-> web_is_ingredient_keto(raw)]
    /\ UNCHANGED <<Config, _KETO_MAP, _VEGAN_MAP, preds>>

WebIsIngredientVegan(raw) ==
    /\ module = "web" /\ call = Idle
    /\ call' = [op |-> "is_ingredient_vegan", arg |-> raw, res |-> web_is_ingredient_vegan(raw)]
    /\ UNCHANGED <<Config, _KETO_MAP, _VEGAN_MAP, preds>>

WebIsKeto(ings) ==
    /\ module = "web" /\ call = Idle
    /\ call' = [op |-> "is_keto", arg |-> ings, res |-> web_is_keto(ings)]
    /\ UNCHANGED <<Config, _KETO_MAP, _VEGAN_MAP, preds>>

WebIsVegan(ings) ==
    /\ module = "web" /\ call = Idle
    /\ call' = [op |-> "is_vegan", arg |-> ings, res |-> web_is_vegan(ings)]
    /\ UNCHANGED <<Config, _KETO_MAP, _VEGAN_MAP, preds>>

\* _main: explode the column, build both maps, plug them into the globals, then
\* predict every row
NbMain(column) ==
    /\ module = "nb" /\ call = Idle /\ preds = None
    /\ LET ings == NbIngs(column)
           clean_map == NbCleanMap(NbUnique(column))
           failed == \/ \E i \in DOMAIN column : to_list(column[i]).raised
                     \/ NbMapsRaised(clean_map)
       IN  IF failed
           THEN /\ call' = [op |-> "_main", arg |-> column, res |-> Raised]
                /\ UNCHANGED <<_KETO_MAP, _VEGAN_MAP, preds>>
           ELSE LET keto_map == NbKetoMap(clean_map)
                    vegan_map == NbVeganMap(clean_map)
                IN  /\ _KETO_MAP' = keto_map
                    /\ _VEGAN_MAP' = vegan_map
                    /\ preds' = [keto_pred |-> [i \in DOMAIN column |->
                                                   NbAll(keto_map, ings[i]).ret],
                                 vegan_pred |-> [i \in DOMAIN column |->
                                                    NbAll(vegan_map, ings[i]).ret]]
                    /\ call' = [op |-> "_main", arg |-> column,
                                res |-> [raised |-> FALSE, ret |-> None, log |-> <<>>,
                                         asked |-> NbAsked(clean_map)]]
    /\ UNCHANGED Config

\* a plausible slip: the lookup is written as setdefault, which stores the default
NbIsIngredientKetoSetdefault(raw) ==
    /\ module = "nb" /\ call = Idle
    /\ call' = [op |-> "is_ingredient_keto", arg |-> raw, res |-> nb_is_ingredient_keto(raw)]
    /\ _KETO_MAP' = [r \in DOMAIN _KETO_MAP \cup {raw} |-> MapGet(_KETO_MAP, r)]
    /\ UNCHANGED <<Config, _VEGAN_MAP, preds>>

NbIsIngredientKeto(raw) ==
    /\ module = "nb" /\ call = Idle
    /\ call' = [op |-> "is_ingredient_keto", arg |-> raw, res |-> nb_is_ingredient_keto(raw)]
    /\ UNCHANGED <<Config, _KETO_MAP, _VEGAN_MAP, preds>>

NbIsIngredientVegan(raw) ==
    /\ module = "nb" /\ call = Idle
    /\ call' = [op |-> "is_ingredient_vegan", arg |-> raw, res |-> nb_is_ingredient_vegan(raw)]
    /\ UNCHANGED <<Config, _KETO_MAP, _VEGAN_MAP, preds>>

NbIsKeto(ings) ==
    /\ module = "nb" /\ call = Idle
    /\ call' = [op |-> "is_keto", arg |-> ings, res |-> nb_is_keto(ings)]
    /\ UNCHANGED <<Config, _KETO_MAP, _VEGAN_MAP, preds>>

NbIsVegan(ings) ==
    /\ module = "nb" /\ call = Idle
    /\ call' = [op |-> "is_vegan", arg |-> ings, res |-> nb_is_vegan(ings)]
    /\ UNCHANGED <<Config, _KETO_MAP, _VEGAN_MAP, preds>>

\* preprocess called on its own (both modules export it)
Preprocess(raw) ==
    /\ module \in {"web", "nb"} /\ call = Idle
    /\ call' = [op |-> "preprocess", arg |-> raw, res |-> NbReturned(preprocess(raw))]
    /\ UNCHANGED <<Config, _KETO_MAP, _VEGAN_MAP, preds>>

\* to_list called on its own
NbToList(cell) ==
    /\ module = "nb" /\ call = Idle
    /\ call' = [op |-> "to_list", arg |-> cell, res |-> to_list(cell)]
    /\ UNCHANGED <<Config, _KETO_MAP, _VEGAN_MAP, preds>>

\* the caller takes the result; the next call may start
Return ==
    /\ call # Idle
    /\ call' = Idle
    /\ UNCHANGED <<Config, _KETO_MAP, _VEGAN_MAP, preds>>

Next ==
    \/ \E raw \in Ingredients : WebIsIngredientKeto(raw)
    \/ \E raw \in Ingredients : WebIsIngredientVegan(raw)
    \/ \E ings \in BoundedSeq(RecipeIngredients, MaxIngs) : WebIsKeto(ings)
    \/ \E ings \in BoundedSeq(RecipeIngredients, MaxIngs) : WebIsVegan(ings)
    \/ \E column \in BoundedSeq(DatasetCells, MaxRows) : NbMain(column)
    \/ \E raw \in NbIngredients : NbIsIngredientKeto(raw)
    \/ \E raw \in NbIngredients : NbIsIngredientVegan(raw)
    \/ \E ings \in BoundedSeq(NbRecipeIngredients, MaxIngs) : NbIsKeto(ings)
    \/ \E ings \in BoundedSeq(NbRecipeIngredients, MaxIngs) : NbIsVegan(ings)
    \/ \E raw \in Ingredients : Preprocess(raw)
    \/ \E cell \in DatasetCells : NbToList(cell)
    \/ Return

Spec == Init /\ [][Next]_vars

\* the same process with pipelines whose predict can raise
SpecFaulty == InitFaulty /\ [][Next]_vars

(***************************************************************************)
(* The same classification call made twice, with other calls (and in nb a  *)
(* run of _main) in between.  call keeps the first result, the verdict     *)
(* maps of the first call, and in ran the raw strings preprocess has run   *)
(* on so far, in order.                                                    *)
(***************************************************************************)
\* is_ingredient_keto / is_ingredient_vegan of the loaded module
Classify(op, raw) ==
    IF module = "web"
    THEN IF op = "is_ingredient_keto" THEN web_is_ingredient_keto(raw)
                                      ELSE web_is_ingredient_vegan(raw)
    ELSE IF op = "is_ingredient_keto" THEN nb_is_ingredient_keto(raw)
                                      ELSE nb_is_ingredient_vegan(raw)

ClassifyOps == {"is_ingredient_keto", "is_ingredient_vegan"}

\* the raw strings a call of is_ingredient_keto / is_ingredient_vegan runs preprocess
\* on: web calls it on raw at every call (web lines 107 and 128), nb only looks the
\* string up (nb lines 123 and 126)
PreprocessRuns(op, raw) == IF module = "web" THEN <<raw>> ELSE <<>>

\* the raw strings of the repeated call and of the calls in between
RepeatIngredients ==
    IF module = "web" THEN Ingredients ELSE {"sugar and bacon", "kale", "eggs", "2 eggs"}

BetweenIngredients == {"kale", "almond butter"}

\* cells of the dataset of a _main run in between: one that fills the maps, one
\* without ingredients
RepeatCells ==
    {[kind |-> "str", text |-> "['sugar and bacon', 'kale']"], [kind |-> "other"]}

InitRepeat == Init /\ \A tok \in TagVocabulary : TAGGER[tok] = "NOUN"

FirstCall(op, raw) ==
    /\ call = Idle
    /\ call' = [op |-> "first", fn |-> op, arg |-> raw, res |-> Classify(op, raw),
                keto_map |-> _KETO_MAP, vegan_map |-> _VEGAN_MAP, between |-> <<>>,
                ran |-> PreprocessRuns(op, raw)]
    /\ UNCHANGED <<Config, _KETO_MAP, _VEGAN_MAP, preds>>

\* another classification call is made and returns
OtherCall(op, raw) ==
    /\ call.op = "first" /\ Len(call.ran) < MaxRuns
    /\ call' = [call EXCEPT !.between = <<op, raw, Classify(op, raw).raised>>,
                            !.ran = @ \o PreprocessRuns(op, raw)]
    /\ UNCHANGED <<Config, _KETO_MAP, _VEGAN_MAP, preds>>

\* _main runs and returns
MainBetween(column) ==
    /\ module = "nb" /\ call.op = "first" /\ call.between = <<>> /\ preds = None
    /\ LET ings == NbIngs(column)
           clean_map == NbCleanMap(NbUnique(column))
           keto_map == NbKetoMap(clean_map)
           vegan_map == NbVeganMap(clean_map)
       IN  /\ ~NbMapsRaised(clean_map)
           /\ _KETO_MAP' = keto_map
           /\ _VEGAN_MAP' = vegan_map
           /\ preds' = [keto_pred |-> [i \in DOMAIN column |->
                                          NbAll(keto_map, ings[i]).ret],
                        vegan_pred |-> [i \in DOMAIN column |->
                                           NbAll(vegan_map, ings[i]).ret]]
    /\ call' = [call EXCEPT !.between = <<"_main">>,
                            !.ran = @ \o SetToSeq(NbUnique(column))]
    /\ UNCHANGED Config

SecondCall ==
    /\ call.op = "first"
    /\ call' = [op |-> "second", fn |-> call.fn, arg |-> call.arg, first |-> call.res,
                res |-> Classify(call.fn, call.arg),
                keto_map |-> call.keto_map, vegan_map |-> call.vegan_map,
                between |-> call.between,
                ran |-> call.ran \o PreprocessRuns(call.fn, call.arg)]
    /\ UNCHANGED <<Config, _KETO_MAP, _VEGAN_MAP, preds>>

NextRepeat ==
    \/ \E op \in ClassifyOps : \E raw \in RepeatIngredients : FirstCall(op, raw)
    \/ \E op \in ClassifyOps : \E raw \in BetweenIngredients : OtherCall(op, raw)
    \/ \E column \in BoundedSeq(RepeatCells, MaxRows) : MainBetween(column)
    \/ SecondCall

SpecRepeat == InitRepeat /\ [][NextRepeat]_vars

(***************************************************************************)
(* Several worker threads, each running one call of is_ingredient_keto,    *)
(* is_ingredient_vegan, is_keto or is_vegan, with no lock.  A thread can   *)
(* be preempted between any two ingredients of its list; every step reads  *)
(* the globals as they are at that moment.  call holds, per worker (its    *)
(* index is the input position), the task, the index of the next           *)
(* ingredient, the outcome once done, and the outcome of the same call run *)
(* alone when the tasks were submitted; trace is the order of the steps.   *)
(***************************************************************************)
\* a task is [fn, arg]: arg is the ingredient list, <<raw>> for is_ingredient_*
WorkerTasks ==
    IF module = "web"
    THEN {[fn |-> "is_keto", arg |-> <<"2 eggs", "kale">>],
          [fn |-> "is_vegan", arg |-> <<"kale", "2 eggs">>],
          [fn |-> "is_ingredient_keto", arg |-> <<"kale">>],
          [fn |-> "is_vegan", arg |-> <<>>]}
    ELSE {[fn |-> "is_keto", arg |-> <<"kale", "sugar and bacon">>],
          [fn |-> "is_vegan", arg |-> <<"sugar and bacon", "eggs">>],
          [fn |-> "is_ingredient_vegan", arg |-> <<"kale">>],
          [fn |-> "is_keto", arg |-> <<>>]}

\* the per-ingredient function a task applies
IngredientOp(fn) ==
    IF fn \in {"is_keto", "is_ingredient_keto"} THEN "is_ingredient_keto"
                                                ELSE "is_ingredient_vegan"

Outcome(res) == [raised |-> res.raised, ret |-> ~res.raised /\ res.ret]

\* the call of a task run on its own, start to end
RunAlone(task) ==
    IF task.fn \in ClassifyOps THEN Outcome(Classify(task.fn, task.arg[1]))
    ELSE Outcome(All([i \in DOMAIN task.arg |->
                         Classify(IngredientOp(task.fn), task.arg[i])]))

\* the workers are handed their tasks
Submit(tasks) ==
    /\ call = Idle
    /\ call' = [op |-> "workers", tasks |-> tasks,
                next |-> [w \in DOMAIN tasks |-> 1],
                done |-> {},
                out |-> [w \in DOMAIN tasks |-> Outcome(Raised)],
                alone |-> [w \in DOMAIN tasks |-> RunAlone(tasks[w])],
                trace |-> <<>>]
    /\ UNCHANGED <<Config, _KETO_MAP, _VEGAN_MAP, preds>>

\* a plausible slip: the nb lookup takes the entry out of the map (pop for get)
WorkerStepPop(w) ==
    /\ call.op = "workers" /\ w \in DOMAIN call.tasks /\ w \notin call.done
    /\ LET task == call.tasks[w]
           i == call.next[w]
           r == IF i > Len(task.arg) THEN NbReturned(TRUE)
                ELSE Classify(IngredientOp(task.fn), task.arg[i])
           ends == i >= Len(task.arg) \/ r.raised \/ ~r.ret
       IN  /\ call' = [call EXCEPT !.next[w] = i + 1,
                                   !.done = IF ends THEN @ \cup {w} ELSE @,
                                   !.out[w] = IF ends THEN Outcome(r) ELSE @,
                                   !.trace = Append(@, w)]
           /\ IF module = "nb" /\ i <= Len(task.arg)
              THEN IF IngredientOp(task.fn) = "is_ingredient_keto"
                   THEN /\ _KETO_MAP' = [x \in DOMAIN _KETO_MAP \ {task.arg[i]} |-> _KETO_MAP[x]]
                        /\ UNCHANGED _VEGAN_MAP
                   ELSE /\ _VEGAN_MAP' = [x \in DOMAIN _VEGAN_MAP \ {task.arg[i]} |-> _VEGAN_MAP[x]]
                        /\ UNCHANGED _KETO_MAP
              ELSE UNCHANGED <<_KETO_MAP, _VEGAN_MAP>>
    /\ UNCHANGED <<Config, preds>>

\* worker w runs up to its next preemption point: it classifies the next ingredient
\* of its list; all() ends the call at the first false one or at the end of the list
WorkerStep(w) ==
    /\ call.op = "workers" /\ w \in DOMAIN call.tasks /\ w \notin call.done
    /\ LET task == call.tasks[w]
           i == call.next[w]
           r == IF i > Len(task.arg) THEN NbReturned(TRUE)
                ELSE Classify(IngredientOp(task.fn), task.arg[i])
           ends == i >= Len(task.arg) \/ r.raised \/ ~r.ret
       IN  call' = [call EXCEPT !.next[w] = i + 1,
                               !.done = IF ends THEN @ \cup {w} ELSE @,
                               !.out[w] = IF ends THEN Outcome(r) ELSE @,
                               !.trace = Append(@, w)]
    /\ UNCHANGED <<Config, _KETO_MAP, _VEGAN_MAP, preds>>

NextWorkers ==
    \/ \E column \in BoundedSeq(RepeatCells, MaxRows) : NbMain(column)
    \/ Return
    \/ \E n \in 1..MaxWorkers : \E tasks \in [1..n -> WorkerTasks] : Submit(tasks)
    \/ \E w \in 1..MaxWorkers : WorkerStep(w)

SpecWorkers == InitRepeat /\ [][NextWorkers]_vars

(***************************************************************************)
(* _fast_scrub as a pure function: scrub a raw string, then scrub again    *)
(***************************************************************************)
Harness(m, input) ==
    /\ module = m
    /\ KETO_MODEL = None /\ VEGAN_MODEL = None
    /\ TAGGER \in Taggers /\ \A tok \in TagVocabulary : TAGGER[tok] = "NOUN"
    /\ VOCAB = Vocabulary("web")
    /\ _KETO_MAP = <<>> /\ _VEGAN_MAP = <<>> /\ preds = None
    /\ call = [op |-> "input", arg |-> input]

InitScrub == \E raw \in Concats(ScrubChunks, MaxChunks) : Harness("scrub", raw)

FastScrub ==
    /\ module = "scrub" /\ call.op = "input"
    /\ call' = [op |-> "_fast_scrub", arg |-> call.arg, res |-> _fast_scrub(call.arg)]
    /\ UNCHANGED <<Config, _KETO_MAP, _VEGAN_MAP, preds>>

ReScrub ==
    /\ module = "scrub" /\ call.op = "_fast_scrub"
    /\ call' = [op |-> "rescrub", first |-> call.arg, arg |-> call.res,
                res |-> _fast_scrub(call.res)]
    /\ UNCHANGED <<Config, _KETO_MAP, _VEGAN_MAP, preds>>

NextScrub == FastScrub \/ ReScrub

SpecScrub == InitScrub /\ [][NextScrub]_vars

(***************************************************************************)
(* to_list as a pure function of the cell                                  *)
(***************************************************************************)
InitToList == \E cell \in ToListCells : Harness("to_list", cell)

ToList ==
    /\ module = "to_list" /\ call.op = "input"
    /\ call' = [op |-> "to_list", arg |-> call.arg, res |-> to_list(call.arg)]
    /\ UNCHANGED <<Config, _KETO_MAP, _VEGAN_MAP, preds>>

NextToList == ToList

SpecToList == InitToList /\ [][NextToList]_vars

(***************************************************************************)
(* to_list on plain cells: ingredient lines "quantity [unit] name" joined  *)
(* by a comma or a newline                                                 *)
(***************************************************************************)
\* an integer, a decimal, a fraction a/b, a vulgar fraction glyph
Quantities == {"2", "1.5", "1/2", "½"}

LineUnits == {"", "cup"}

LineNames == {"egg", "flour"}

QtyLines == [qty : Quantities, unit : LineUnits, name : LineNames]

LineText(l) == l.qty \o " " \o (IF l.unit = "" THEN "" ELSE l.unit \o " ") \o l.name

LineSeparators == {", ", "\n"}

PlainCell(ls, sep) ==
    [kind |-> "str", text |-> Join([i \in DOMAIN ls |-> LineText(ls[i])], sep)]

InitPlainCell ==
    \E ls \in BoundedSeq(QtyLines, MaxIngs) \ {<<>>} : \E sep \in LineSeparators :
        /\ module = "plain_cell"
        /\ KETO_MODEL = None /\ VEGAN_MODEL = None
        /\ TAGGER \in Taggers /\ \A tok \in TagVocabulary : TAGGER[tok] = "NOUN"
        /\ VOCAB = Vocabulary("web")
        /\ _KETO_MAP = <<>> /\ _VEGAN_MAP = <<>> /\ preds = None
        /\ call = [op |-> "input", arg |-> PlainCell(ls, sep), lines |-> ls]

ToListPlain ==
    /\ module = "plain_cell" /\ call.op = "input"
    /\ call' = [op |-> "to_list", arg |-> call.arg, lines |-> call.lines,
                res |-> to_list(call.arg)]
    /\ UNCHANGED <<Config, _KETO_MAP, _VEGAN_MAP, preds>>

NextPlainCell == ToListPlain

SpecPlainCell == InitPlainCell /\ [][NextPlainCell]_vars

(***************************************************************************)
(* _to_key_phrases as a pure function of the tagged doc                    *)
(***************************************************************************)
\* tokens as the tagger returns them: a plural noun, a proper noun, a verb
DocTokens ==
    {[text |-> "eggs", pos_ |-> "NOUN", lemma_ |-> "egg"],
     [text |-> "kale", pos_ |-> "PROPN", lemma_ |-> "kale"],
     [text |-> "cooking", pos_ |-> "VERB", lemma_ |-> "cook"]}

\* the scrubbed text the doc was made from
DocText(doc) == Join([i \in DOMAIN doc |-> doc[i].text], " ")

InitKeyPhrases ==
    \E doc \in BoundedSeq(DocTokens, MaxTokens) : Harness("key_phrases", doc)

ToKeyPhrases ==
    /\ module = "key_phrases" /\ call.op = "input"
    /\ call' = [op |-> "_to_key_phrases", arg |-> call.arg,
                res |-> KeyPhrases(call.arg, DocText(call.arg))]
    /\ UNCHANGED <<Config, _KETO_MAP, _VEGAN_MAP, preds>>

NextKeyPhrases == ToKeyPhrases

SpecKeyPhrases == InitKeyPhrases /\ [][NextKeyPhrases]_vars

(***************************************************************************)
(* scripts/gpt_decide_keto.py: label every row of the source file through  *)
(* GPT, in batches, appending the labelled rows to the output file; a run  *)
(* skips the rows whose index the output file already holds.  call is the  *)
(* state of the script and of its files: src and file (the output file, a  *)
(* sequence of rows) outlive a run, the other fields belong to the run in  *)
(* progress (pc = "off": none).  Rows are numbered from 1.  replies and    *)
(* one_replies are the replies the label_batch / label_one call in         *)
(* progress has received so far, asked the rows whose ingredient the run   *)
(* has sent to GPT.                                                        *)
(***************************************************************************)
BATCH_SIZE == 10

MAX_RETRIES == 3

\* the ingredient column of the source file
Pantry ==
    <<"salt", "kale", "egg", "rice", "milk", "corn", "beef", "tofu", "lime", "oats",
      "pear", "soy">>

\* source files: more than one batch of different ingredients, the same with one
\* ingredient on two rows, and two short files
SourceFiles == {Pantry, [Pantry EXCEPT ![2] = "salt"], <<"salt">>, <<"salt", "kale">>}

\* what GPT answers to the prompt of a batch: "error" is any reply label_batch
\* rejects (an API exception, no JSON array, a record without the three keys),
\* "echo" one record per prompt line, "short" the same without the last line
BatchReplies == {"error", "echo", "short"}

\* what GPT answers to the prompt of label_one: "error" is any reply label_one
\* rejects, "ok" a record for the ingredient, "renamed" a record whose ingredient
\* text is not the one asked about
OneReplies == {"error", "ok", "renamed"}

Record(s) == [ingredient |-> s, keto |-> "1"]

\* the records of a well-formed reply to the prompt of batch
BatchRecords(reply, src, batch) ==
    LET echo == [j \in DOMAIN batch |-> Record(src[batch[j]])]
    IN  IF reply = "echo" THEN echo ELSE SubSeq(echo, 1, Len(echo) - 1)

\* the rows of the left merge for the batch row i: one per record of its
\* ingredient, or one without a label when there is none
RowsFor(i, s, records) ==
    LET hits == SelectSeq(records, LAMBDA r : r.ingredient = s)
    IN  IF hits = <<>>
        THEN <<[orig_index |-> i, ingredient |-> s, keto |-> "NaN"]>>
        ELSE [j \in DOMAIN hits |->
                 [orig_index |-> i, ingredient |-> s, keto |-> hits[j].keto]]

\* batch_df.reset_index().rename(...).merge(rec_df, on="ingredient", how="left")
RECURSIVE LeftMerge(_, _, _)
LeftMerge(src, batch, records) ==
    IF batch = <<>> THEN <<>>
    ELSE RowsFor(Head(batch), src[Head(batch)], records)
             \o LeftMerge(src, Tail(batch), records)

\* merged[merged["keto"].isna()]["ingredient"]
Missing(merged) ==
    LET rows == SelectSeq(merged, LAMBDA row : row.keto = "NaN")
    IN  [j \in DOMAIN rows |-> rows[j].ingredient]

\* merged.loc[merged["ingredient"] == miss, ["keto","reason"]] = ...
Fill(merged, miss) ==
    [j \in DOMAIN merged |->
        IF merged[j].ingredient = miss THEN [merged[j] EXCEPT !.keto = "1"] ELSE merged[j]]

\* todo_df.iloc[start:start+BATCH_SIZE], as row numbers
BatchOf(c) ==
    SubSeq(c.todo, c.start + 1,
           IF c.start + BATCH_SIZE < Len(c.todo) THEN c.start + BATCH_SIZE ELSE Len(c.todo))

\* an exception leaves the main loop: the with block closes the file, the run ends
Abort(c, exception) == [c EXCEPT !.pc = "off", !.exit = exception]

\* merged.to_csv(sink, ...), then the next batch or the end of the run
Written(c, merged) ==
    LET next == c.start + BATCH_SIZE
    IN  [c EXCEPT !.file = @ \o merged, !.merged = <<>>, !.missing = <<>>,
                  !.records = <<>>, !.replies = <<>>, !.one_replies = <<>>, !.k = 0,
                  !.start = next,
                  !.pc = IF next < Len(c.todo) THEN "label_batch" ELSE "off",
                  !.exit = IF next < Len(c.todo) THEN "running" ELSE "done"]

\* the rest of the loop body once records is known (lines 146-158): a frame of no
\* records has no ingredient column and the merge raises KeyError
Merged(c, records) ==
    IF records = <<>> THEN Abort(c, "KeyError")
    ELSE LET merged == LeftMerge(c.src, BatchOf(c), records)
         IN  IF Missing(merged) = <<>> THEN Written(c, merged)
             ELSE [c EXCEPT !.pc = "missing", !.records = records, !.merged = merged,
                            !.missing = Missing(merged), !.one_replies = <<>>]

InitLabel ==
    \E src \in SourceFiles :
        /\ module = "gpt_decide_keto"
        /\ KETO_MODEL = None /\ VEGAN_MODEL = None
        /\ TAGGER \in Taggers /\ \A tok \in TagVocabulary : TAGGER[tok] = "NOUN"
        /\ VOCAB = Vocabulary("nb")
        /\ _KETO_MAP = <<>> /\ _VEGAN_MAP = <<>> /\ preds = None
        /\ call = [op |-> "gpt_decide_keto", pc |-> "off", exit |-> "none",
                   src |-> src, file |-> <<>>, done_idx |-> {}, todo |-> <<>>,
                   start |-> 0, replies |-> <<>>, one_replies |-> <<>>, k |-> 0,
                   records |-> <<>>, merged |-> <<>>, missing |-> <<>>, asked |-> {}]

\* the script is started: lines 112-129
StartRun ==
    /\ module = "gpt_decide_keto" /\ call.pc = "off"
    /\ LET done_idx == {call.file[j].orig_index : j \in DOMAIN call.file}
           todo == SelectSeq([i \in DOMAIN call.src |-> i], LAMBDA i : i \notin done_idx)
       IN  call' = [call EXCEPT !.done_idx = done_idx, !.todo = todo, !.start = 0,
                               !.replies = <<>>, !.one_replies = <<>>, !.k = 0,
                               !.records = <<>>, !.merged = <<>>, !.missing = <<>>,
                               !.asked = {},
                               !.pc = IF todo = <<>> THEN "off" ELSE "label_batch",
                               !.exit = IF todo = <<>> THEN "nothing" ELSE "running"]
    /\ UNCHANGED <<Config, _KETO_MAP, _VEGAN_MAP, preds>>

\* a plausible slip: the retry loop counts from 0 to MAX_RETRIES inclusive
LabelBatchOneMore(reply) ==
    /\ module = "gpt_decide_keto" /\ call.pc = "label_batch"
    /\ LET c == [call EXCEPT !.replies = Append(@, reply),
                             !.asked = @ \cup Range(BatchOf(call))]
       IN  call' = IF reply # "error"
                   THEN Merged(c, BatchRecords(reply, c.src, BatchOf(c)))
                   ELSE IF Len(c.replies) <= MAX_RETRIES THEN c
                   ELSE [c EXCEPT !.pc = "fallback", !.k = 1, !.one_replies = <<>>]
    /\ UNCHANGED <<Config, _KETO_MAP, _VEGAN_MAP, preds>>

\* one attempt of label_batch (lines 94-109), and what follows a reply it accepts;
\* after MAX_RETRIES rejected replies it raises RuntimeError and the main loop turns
\* to label_one (lines 142-144)
LabelBatch(reply) ==
    /\ module = "gpt_decide_keto" /\ call.pc = "label_batch"
    /\ LET c == [call EXCEPT !.replies = Append(@, reply),
                             !.asked = @ \cup Range(BatchOf(call))]
       IN  call' = IF reply # "error"
                   THEN Merged(c, BatchRecords(reply, c.src, BatchOf(c)))
                   ELSE IF Len(c.replies) < MAX_RETRIES THEN c
                   ELSE [c EXCEPT !.pc = "fallback", !.k = 1, !.one_replies = <<>>]
    /\ UNCHANGED <<Config, _KETO_MAP, _VEGAN_MAP, preds>>

\* one attempt of label_one for the k-th ingredient of the batch, in the fallback
\* records = [label_one(ing) for ing in batch_ing] (lines 78-91 and 144)
Fallback(reply) ==
    /\ module = "gpt_decide_keto" /\ call.pc = "fallback"
    /\ LET i == BatchOf(call)[call.k]
           c == [call EXCEPT !.one_replies = Append(@, reply), !.asked = @ \cup {i}]
       IN  call' = IF reply # "error"
                   THEN LET rec == Record(IF reply = "ok" THEN c.src[i]
                                                          ELSE "sea " \o c.src[i])
                            records == Append(c.records, rec)
                        IN  IF c.k = Len(BatchOf(c)) THEN Merged(c, records)
                            ELSE [c EXCEPT !.records = records, !.k = @ + 1,
                                           !.one_replies = <<>>]
                   ELSE IF Len(c.one_replies) < MAX_RETRIES THEN c
                   ELSE Abort(c, "RuntimeError")
    /\ UNCHANGED <<Config, _KETO_MAP, _VEGAN_MAP, preds>>

\* one attempt of label_one for the next ingredient left without a label by the
\* merge (lines 154-156); the batch is written after the last one (line 158)
ResolveMissing(reply) ==
    /\ module = "gpt_decide_keto" /\ call.pc = "missing"
    /\ LET miss == Head(call.missing)
           rows == {i \in Range(BatchOf(call)) : call.src[i] = miss}
           c == [call EXCEPT !.one_replies = Append(@, reply), !.asked = @ \cup rows]
       IN  call' = IF reply # "error"
                   THEN IF Tail(c.missing) = <<>> THEN Written(c, Fill(c.merged, miss))
                        ELSE [c EXCEPT !.merged = Fill(@, miss), !.missing = Tail(@),
                                       !.one_replies = <<>>]
                   ELSE IF Len(c.one_replies) < MAX_RETRIES THEN c
                   ELSE Abort(c, "RuntimeError")
    /\ UNCHANGED <<Config, _KETO_MAP, _VEGAN_MAP, preds>>

\* the user stops the run (KeyboardInterrupt): the batches written so far stay
StopRun ==
    /\ module = "gpt_decide_keto" /\ call.pc # "off"
    /\ call' = Abort(call, "KeyboardInterrupt")
    /\ UNCHANGED <<Config, _KETO_MAP, _VEGAN_MAP, preds>>

NextLabel ==
    \/ StartRun
    \/ \E reply \in BatchReplies : LabelBatch(reply)
    \/ \E reply \in OneReplies : Fallback(reply)
    \/ \E reply \in OneReplies : ResolveMissing(reply)
    \/ StopRun

SpecLabel == InitLabel /\ [][NextLabel]_vars

(***************************************************************************)
(* Properties of the classifiers                                           *)
(***************************************************************************)
\* the tokens of a vocabulary entry occur in toks as a run of whole tokens
TokenRun(entry, toks) ==
    LET e == Split(entry)
    IN  \E i \in 1..(Len(toks) - Len(e) + 1) : SubSeq(toks, i, i + Len(e) - 1) = e

ContainsEntry(phrase, vocab) == \E entry \in vocab : TokenRun(entry, Split(phrase))

PlantFirst(phrase) ==
    LET toks == Split(phrase) IN toks # <<>> /\ toks[1] \in PLANT_BASES

LaterBlocked(phrase) ==
    LET toks == Split(phrase) IN \E i \in 2..Len(toks) : toks[i] \in VEGAN_BLOCK

ReturnedValue(res, v) == ~res.raised /\ res.ret = v

WebCall(op) == module = "web" /\ call.op = op

NbCall(op) == module = "nb" /\ call.op = op

\* C1: web is_ingredient_keto returns false for every raw ingredient whose
\* preprocessed phrase holds a KETO_BLOCK entry (of one word or of several, such as
\* "cooking spray") as a run of whole tokens, whatever KETO_ALLOW entries the phrase
\* holds and whatever the model predicts.
C1_WebKetoBlockPrecedence ==
    (WebCall("is_ingredient_keto") /\ ContainsEntry(preprocess(call.arg), KETO_BLOCK))
        => ReturnedValue(call.res, FALSE)

\* C1, the failing call: the phrase holds the entry "cooking spray" and the token
\* "olive" of KETO_ALLOW, and the call returns true
C1_CookingSprayAllowed ==
    /\ WebCall("is_ingredient_keto")
    /\ call.arg = "olive oil cooking spray"
    /\ TokenRun("cooking spray", Split(preprocess(call.arg)))
    /\ ReturnedValue(call.res, TRUE)

\* C2: in nb, the keto verdict _main stores for a raw ingredient, and that
\* is_ingredient_keto then returns, is false whenever the preprocessed phrase holds
\* a KETO_BLOCK entry, also when it holds a KETO_ALLOW entry.
C2_NbKetoBlockPrecedence ==
    /\ NbCall("_main") =>
          \A r \in DOMAIN _KETO_MAP :
              ContainsEntry(preprocess(r), KETO_BLOCK) => ~_KETO_MAP[r]
    /\ (NbCall("is_ingredient_keto") /\ call.arg \in DOMAIN _KETO_MAP
            /\ ContainsEntry(preprocess(call.arg), KETO_BLOCK))
          => ReturnedValue(call.res, FALSE)

\* C2, the failing call: the phrase holds "sugar" of KETO_BLOCK and "bacon" of
\* KETO_ALLOW, the map stores true and is_ingredient_keto returns it
C2_SugarAndBaconAllowed ==
    /\ NbCall("is_ingredient_keto")
    /\ call.arg = "sugar and bacon"
    /\ call.arg \in DOMAIN _KETO_MAP
    /\ ContainsEntry(preprocess(call.arg), {"sugar"})
    /\ ContainsEntry(preprocess(call.arg), {"bacon"})
    /\ ReturnedValue(call.res, TRUE)

\* C3: an ingredient whose preprocessed phrase has a first token in PLANT_BASES is
\* vegan, for web is_ingredient_vegan and for the vegan map _main builds in nb, also
\* when a later token is in VEGAN_BLOCK and when the model predicts false.
C3_PlantPrefixFirst ==
    /\ (WebCall("is_ingredient_vegan") /\ PlantFirst(preprocess(call.arg)))
          => ReturnedValue(call.res, TRUE)
    /\ NbCall("_main") =>
          \A r \in DOMAIN _VEGAN_MAP : PlantFirst(preprocess(r)) => _VEGAN_MAP[r]
    /\ (NbCall("is_ingredient_vegan") /\ call.arg \in DOMAIN _VEGAN_MAP
            /\ PlantFirst(preprocess(call.arg)))
          => ReturnedValue(call.res, TRUE)

\* C3, its case: a plant-base first token, a later token of VEGAN_BLOCK, a loaded
\* model that predicts 0 for the phrase, and the web call returned true
C3_PlantPrefixOverBlock ==
    /\ WebCall("is_ingredient_vegan")
    /\ PlantFirst(preprocess(call.arg))
    /\ LaterBlocked(preprocess(call.arg))
    /\ Truthy(VEGAN_MODEL)
    /\ PredictOne(VEGAN_MODEL, preprocess(call.arg)) = 0
    /\ ReturnedValue(call.res, TRUE)

\* the phrase matches no rule of web is_ingredient_keto / is_ingredient_vegan
WebNoKetoRule(phrase) ==
    ~AnyIn(Split(phrase), KETO_BLOCK) /\ ~AnyIn(Split(phrase), WEB_KETO_ALLOW)

WebNoVeganRule(phrase) ==
    ~PlantFirst(phrase) /\ ~AnyIn(Split(phrase), VEGAN_BLOCK)

\* C4: with no model loaded (KETO_MODEL and VEGAN_MODEL are None), an ingredient
\* whose phrase matches no allow, block or plant-base rule is classified false for
\* that predicate, and the call (web is_ingredient_*, nb _main and is_ingredient_*)
\* completes without raising.
C4_DegradedModeFalse ==
    (KETO_MODEL = None /\ VEGAN_MODEL = None) =>
        /\ (WebCall("is_ingredient_keto") /\ WebNoKetoRule(preprocess(call.arg)))
              => ReturnedValue(call.res, FALSE)
        /\ (WebCall("is_ingredient_vegan") /\ WebNoVeganRule(preprocess(call.arg)))
              => ReturnedValue(call.res, FALSE)
        /\ NbCall("_main") =>
              /\ ~call.res.raised
              /\ \A r \in DOMAIN _KETO_MAP :
                    NbKetoRule(preprocess(r)) = "svm" => ~_KETO_MAP[r]
              /\ \A r \in DOMAIN _VEGAN_MAP :
                    NbVeganRule(preprocess(r)) = "svm" => ~_VEGAN_MAP[r]
        /\ (NbCall("is_ingredient_keto") /\ NbKetoRule(preprocess(call.arg)) = "svm")
              => ReturnedValue(call.res, FALSE)
        /\ (NbCall("is_ingredient_vegan") /\ NbVeganRule(preprocess(call.arg)) = "svm")
              => ReturnedValue(call.res, FALSE)

\* C4, its case: no model, a non-empty phrase no keto rule matches, and the web call
\* returned false
C4_DegradedKetoCall ==
    /\ KETO_MODEL = None
    /\ WebCall("is_ingredient_keto")
    /\ preprocess(call.arg) # ""
    /\ WebNoKetoRule(preprocess(call.arg))
    /\ ReturnedValue(call.res, FALSE)

\* is_ingredient_keto / is_ingredient_vegan of the loaded module returns true for raw
IngredientTrue(op, raw) ==
    ReturnedValue(
        IF module = "web"
        THEN IF op = "is_keto" THEN web_is_ingredient_keto(raw)
                               ELSE web_is_ingredient_vegan(raw)
        ELSE IF op = "is_keto" THEN nb_is_ingredient_keto(raw)
                               ELSE nb_is_ingredient_vegan(raw),
        TRUE)

RecipeCall == module \in {"web", "nb"} /\ call.op \in {"is_keto", "is_vegan"}

\* C5: is_keto(ings) and is_vegan(ings) return true if and only if every ingredient
\* of the list is classified true by is_ingredient_keto / is_ingredient_vegan; one
\* false ingredient at any position makes the verdict false.
C5_AllMustPass ==
    RecipeCall =>
        /\ ~call.res.raised
        /\ call.res.ret <=> \A i \in DOMAIN call.arg : IngredientTrue(call.op, call.arg[i])

\* C5, its case: a list of two whose first ingredient is keto and whose second is
\* not, and is_keto returned false
C5_LastIngredientFalse ==
    /\ WebCall("is_keto")
    /\ Len(call.arg) = 2
    /\ IngredientTrue("is_keto", call.arg[1])
    /\ ~IngredientTrue("is_keto", call.arg[2])
    /\ ReturnedValue(call.res, FALSE)

\* C6: is_keto([]) and is_vegan([]) return true, in web and in nb, whatever the
\* models and the nb verdict maps are.
C6_EmptyListTrue ==
    (RecipeCall /\ Len(call.arg) = 0) => ReturnedValue(call.res, TRUE)

\* C6, its case: nb after _main filled the maps, no model, is_vegan([]) returned true
C6_EmptyAfterMain ==
    /\ NbCall("is_vegan")
    /\ Len(call.arg) = 0
    /\ DOMAIN _VEGAN_MAP # {}
    /\ VEGAN_MODEL = None
    /\ ReturnedValue(call.res, TRUE)

(***************************************************************************)
(* Properties of _fast_scrub                                               *)
(***************************************************************************)
HasDigit(t) == \E i \in 1..Len(t) : IsDigit(Chr(t, i)) \/ Chr(t, i) \in Chars(FRACTIONS)

\* C7: _fast_scrub is idempotent: _fast_scrub(_fast_scrub(x)) = _fast_scrub(x).
C7_ScrubIdempotent ==
    (module = "scrub" /\ call.op = "rescrub") => call.res = call.arg

\* C7, the failing input: "1cup" scrubs to "cup", and "cup" scrubs to ""
C7_OneCupTwice ==
    /\ module = "scrub" /\ call.op = "rescrub"
    /\ call.first = "1cup" /\ call.arg = "cup" /\ call.res = ""

\* C8: the output of _fast_scrub holds no whole-word occurrence of a word of the unit
\* vocabulary, also when the unit is glued to a digit or to an underscore in the input.
C8_NoUnitWord ==
    (module = "scrub" /\ call.op = "_fast_scrub")
        => \A i \in DOMAIN Split(call.res) : Split(call.res)[i] \notin UNITS_RE

\* C8, the failing input: the unit of "1_cup" is the whole output
C8_GluedUnitSurvives ==
    /\ module = "scrub" /\ call.op = "_fast_scrub"
    /\ call.arg = "1_cup" /\ call.res = "cup"

\* C9: the output of _fast_scrub holds no digit: integers, decimals, fractions a/b
\* and vulgar fraction glyphs are removed and no later step brings a digit back.
C9_NoDigit ==
    (module = "scrub" /\ call.op \in {"_fast_scrub", "rescrub"}) => ~HasDigit(call.res)

\* C9, its case: an input with a digit, a glyph and a fraction bar, of which some
\* text is left
C9_QuantitiesRemoved ==
    /\ module = "scrub" /\ call.op = "_fast_scrub"
    /\ \E i \in 1..Len(call.arg) : IsDigit(Chr(call.arg, i))
    /\ Contains(call.arg, "½")
    /\ call.res # ""
    /\ ~HasDigit(call.res)

(***************************************************************************)
(* Properties of to_list                                                   *)
(***************************************************************************)
\* C10: to_list never raises and always returns a list, for a list, a bracketed
\* string that fails literal parsing, an empty string, any other text, and a value
\* that is neither a list nor a string (which gives the empty list).
C10_ToListTotal ==
    (module = "to_list" /\ call.op = "to_list") =>
        /\ ~call.res.raised
        /\ call.res.ret \in Seq(STRING)
        /\ call.arg.kind = "other" => call.res.ret = <<>>

\* C10, its case: a bracketed text with a comma that literal_eval rejects, and
\* to_list returned the pieces of the fallback split
C10_MalformedLiteralSplit ==
    /\ module = "to_list" /\ call.op = "to_list"
    /\ call.arg.kind = "str"
    /\ StartsWith(Strip(call.arg.text), "[") /\ EndsWith(Strip(call.arg.text), "]")
    /\ Contains(call.arg.text, ",")
    /\ FindQuoted(Strip(call.arg.text), 1) = <<>>
    /\ LiteralEval(Strip(call.arg.text)).raised
    /\ ~call.res.raised
    /\ call.res.ret # <<>>

\* C11: no element of the list to_list returns is empty or whitespace-only, on every
\* path: list passthrough, single-quoted extraction, literal parsing, fallback split.
C11_NoBlankElement ==
    (module = "to_list" /\ call.op = "to_list" /\ ~call.res.raised)
        => \A i \in DOMAIN call.res.ret : Strip(call.res.ret[i]) # ""

\* C11, the failing input: the single-quoted blank of "[' ']" is returned as ""
C11_BlankQuotedKept ==
    /\ module = "to_list" /\ call.op = "to_list"
    /\ call.arg.kind = "str" /\ call.arg.text = "[' ']"
    /\ call.res.ret = <<"">>

\* C12: for a plain cell whose lines each start with a quantity (integer, decimal,
\* fraction a/b, glyph) and an optional unit, to_list returns one piece per line, in
\* order, each being the line without its leading quantity and unit.
C12_OnePiecePerLine ==
    (module = "plain_cell" /\ call.op = "to_list")
        => /\ ~call.res.raised
           /\ call.res.ret = [i \in DOMAIN call.lines |-> call.lines[i].name]

\* C12, the failing input: "2 eggs, 1 cup flour" in the shape of the model; the unit
\* after a digit quantity is kept
C12_UnitKeptAfterDigits ==
    /\ module = "plain_cell" /\ call.op = "to_list"
    /\ call.arg.text = "2 egg, 2 cup flour"
    /\ call.res.ret = <<"egg", "cup flour">>

\* C13: an exception raised by the tagger or by predict while one ingredient is
\* classified is caught at that ingredient, which is then false; it never leaves
\* is_ingredient_keto / is_ingredient_vegan / is_keto / is_vegan, and a batch (_main)
\* goes on to the remaining recipes.
C13_ExceptionsContained ==
    (module \in {"web", "nb"} /\ call.op # "idle") => ~call.res.raised

\* C13, the failing call: predict raises on "kale", and web is_keto of a recipe that
\* starts with it raised instead of returning
C13_PredictRaisePropagates ==
    /\ WebCall("is_keto")
    /\ Len(call.arg) = 2 /\ call.arg[1] = "kale"
    /\ Faulty(KETO_MODEL, <<preprocess("kale")>>)
    /\ call.res.raised

\* C14: with the model artifacts missing the warning is logged once, at module load;
\* no call of is_ingredient_keto or is_ingredient_vegan, however many are made, emits
\* a record of level WARNING.
C14_NoWarningPerCall ==
    (module \in {"web", "nb"} /\ call.op \in {"is_ingredient_keto", "is_ingredient_vegan"})
        => \A i \in DOMAIN call.res.log : call.res.log[i].level # "WARNING"

\* C14, the failing call: no model, no vegan rule matches "kale", and the call itself
\* logged a warning
C14_WarningOnVeganDefault ==
    /\ WebCall("is_ingredient_vegan")
    /\ VEGAN_MODEL = None
    /\ call.arg = "kale"
    /\ call.res.log = <<[level |-> "WARNING", tag |-> "VEGAN-DEFAULT"]>>

Bracketed(cell) ==
    /\ cell.kind = "str"
    /\ StartsWith(Strip(cell.text), "[") /\ EndsWith(Strip(cell.text), "]")

\* C16: for a bracketed string cell with at least one single-quoted substring,
\* to_list returns exactly the single-quoted substrings, trimmed, in their order, and
\* goes on neither to literal parsing nor to the quantity split.
C16_QuotedItemsExactly ==
    (module = "to_list" /\ call.op = "to_list" /\ Bracketed(call.arg)
        /\ FindQuoted(Strip(call.arg.text), 1) # <<>>)
        => LET hits == FindQuoted(Strip(call.arg.text), 1)
           IN  /\ ~call.res.raised
               /\ call.res.ret = [i \in DOMAIN hits |-> Strip(hits[i])]

\* C16, its case: two single-quoted items, one of them with blanks to trim, returned
\* in order
C16_TwoQuotedItems ==
    /\ module = "to_list" /\ call.op = "to_list"
    /\ call.arg.kind = "str" /\ call.arg.text = "['egg'' ']"
    /\ call.res.ret = <<"egg", "">>

\* the call logged a prediction: the model was consulted
Consulted(res) == \E i \in DOMAIN res.log : res.log[i].tag \in {"KETO-SVM", "VEGAN-SVM"}

\* C17: predict is invoked for an ingredient only when no rule of the predicate
\* matched (keto: no block and no allow entry; vegan: no plant-base first token and
\* no block token); when a rule matched the model is never consulted.
C17_ModelOnlyWhenNoRule ==
    /\ (WebCall("is_ingredient_keto")
            /\ (\/ ContainsEntry(preprocess(call.arg), KETO_BLOCK)
                \/ ContainsEntry(preprocess(call.arg), WEB_KETO_ALLOW)))
          => ~Consulted(call.res)
    /\ (WebCall("is_ingredient_vegan")
            /\ (\/ PlantFirst(preprocess(call.arg))
                \/ ContainsEntry(preprocess(call.arg), VEGAN_BLOCK)))
          => ~Consulted(call.res)
    /\ (NbCall("_main") /\ ~call.res.raised) =>
          /\ \A r \in call.res.asked.keto :
                /\ ~ContainsEntry(preprocess(r), KETO_BLOCK)
                /\ ~ContainsEntry(preprocess(r), NB_KETO_ALLOW)
          /\ \A r \in call.res.asked.vegan :
                /\ ~PlantFirst(preprocess(r))
                /\ ~ContainsEntry(preprocess(r), VEGAN_BLOCK)

\* C17, the failing call: the phrase is the KETO_BLOCK entry "cooking spray", and the
\* loaded model was asked
C17_ModelAskedForCookingSpray ==
    /\ WebCall("is_ingredient_keto")
    /\ call.arg = "cooking spray"
    /\ preprocess(call.arg) = "cooking spray"
    /\ Consulted(call.res)

\* C18: when scrubbing removes every character of a non-empty raw ingredient,
\* preprocess falls back to the text before the scrub: the phrase handed to the
\* rules is non-empty, so no ingredient is classified on an empty phrase.
C18_PhraseNeverEmpty ==
    /\ (WebCall("is_ingredient_keto") \/ WebCall("is_ingredient_vegan"))
          => (Strip(call.arg) # "" => preprocess(call.arg) # "")
    /\ NbCall("_main")
          => \A r \in DOMAIN _KETO_MAP : Strip(r) # "" => preprocess(r) # ""

\* C18, the failing call: "1 cup" scrubs to nothing, the phrase is empty, and the
\* ingredient was classified on it
C18_ClassifiedOnEmptyPhrase ==
    /\ WebCall("is_ingredient_keto")
    /\ call.arg = "1 cup"
    /\ _fast_scrub(call.arg) = ""
    /\ preprocess(call.arg) = ""
    /\ ~call.res.raised

(***************************************************************************)
(* Properties of _to_key_phrases                                           *)
(***************************************************************************)
IsNoun(doc, i) == doc[i].pos_ \in {"NOUN", "PROPN"}

\* tokens i..j are a maximal run of noun tokens
MaximalRun(doc, i, j) ==
    /\ i <= j /\ \A k \in i..j : IsNoun(doc, k)
    /\ (i = 1 \/ ~IsNoun(doc, i - 1))
    /\ (j = Len(doc) \/ ~IsNoun(doc, j + 1))

\* the maximal runs of 1 to 3 tokens, as pairs <<first, last>>
ShortRuns(doc) ==
    {r \in (DOMAIN doc) \X (DOMAIN doc) : MaximalRun(doc, r[1], r[2]) /\ r[2] - r[1] < 3}

\* the runs from left to right
RECURSIVE RunsInOrder(_)
RunsInOrder(runs) ==
    IF runs = {} THEN <<>>
    ELSE LET r == CHOOSE x \in runs : \A y \in runs : x[1] <= y[1]
         IN  <<r>> \o RunsInOrder(runs \ {r})

RunPhrase(doc, r) == Join([k \in 1..(r[2] - r[1] + 1) |-> doc[r[1] + k - 1].lemma_], " ")

ExpectedPhrases(doc) ==
    LET runs == RunsInOrder(ShortRuns(doc))
    IN  Join([n \in DOMAIN runs |-> RunPhrase(doc, runs[n])], " ")

\* C19: for any token sequence and any tagging, _to_key_phrases returns the
\* space-joined lemmas of exactly the maximal runs of NOUN/PROPN tokens of length 1
\* to 3, from left to right (a run at the end of the input counts); longer runs
\* give nothing; with no such run it returns the scrubbed text, so a non-empty
\* scrubbed input gives a non-empty phrase.
C19_KeyPhrasesAreShortRuns ==
    (module = "key_phrases" /\ call.op = "_to_key_phrases") =>
        /\ call.res = IF ShortRuns(call.arg) = {} THEN DocText(call.arg)
                      ELSE ExpectedPhrases(call.arg)
        /\ DocText(call.arg) # "" => call.res # ""

\* C19, its case: a run of four nouns, a verb, and a last noun at the end of the
\* input: only the last run is returned
C19_LongRunDropped ==
    /\ module = "key_phrases" /\ call.op = "_to_key_phrases"
    /\ Len(call.arg) = 6
    /\ MaximalRun(call.arg, 1, 4) /\ MaximalRun(call.arg, 6, 6)
    /\ call.res = call.arg[6].lemma_

(***************************************************************************)
(* Properties of the descriptor vocabulary                                 *)
(***************************************************************************)
\* C20: the output of _fast_scrub holds none of the words "chopped", "peeled",
\* "optional", "divided", nor the phrase "to taste", as whole words.
C20_NoDescriptorWord ==
    (module = "scrub" /\ call.op = "_fast_scrub")
        => ~ContainsEntry(call.res, {"chopped", "peeled", "optional", "divided", "to taste"})

\* C20, the failing input: "divided" is not in REMOVE_RE and is returned as it is
C20_DividedKept ==
    /\ module = "scrub" /\ call.op = "_fast_scrub"
    /\ call.arg = "1 divided" /\ call.res = "divided"
    /\ "divided" \notin REMOVE_RE

(***************************************************************************)
(* Properties of the evaluation order, the shared state and the caches     *)
(***************************************************************************)
\* the result of is_ingredient_keto / is_ingredient_vegan, for the ingredients of an
\* is_keto / is_vegan call
IngredientResult(op, raw) ==
    Classify(IF op = "is_keto" THEN "is_ingredient_keto" ELSE "is_ingredient_vegan", raw)

\* C21: is_keto and is_vegan classify the ingredients in list order and stop at the
\* first one classified false: the ingredients before it are all true, none after it
\* is classified, and (web) the diagnostic records of the call are those of the
\* ingredients up to it, one each, in order.
C21_ShortCircuit ==
    RecipeCall =>
        LET k == call.res.consumed
        IN  /\ k \in 0..Len(call.arg)
            /\ \A i \in 1..(k - 1) : IngredientTrue(call.op, call.arg[i])
            /\ k < Len(call.arg) => ~IngredientTrue(call.op, call.arg[k])
            /\ (\E i \in DOMAIN call.arg : ~IngredientTrue(call.op, call.arg[i]))
                  => (k > 0 /\ ~IngredientTrue(call.op, call.arg[k]))
            /\ module = "web" =>
                  /\ Len(call.res.log) = k
                  /\ \A i \in 1..k :
                        <<call.res.log[i]>> = IngredientResult(call.op, call.arg[i]).log

\* C21, its case: web is_vegan of two ingredients, the first classified false with a
\* loaded model, and only its record was logged
C21_StoppedAtFirst ==
    /\ WebCall("is_vegan")
    /\ Len(call.arg) = 2
    /\ Truthy(VEGAN_MODEL)
    /\ ~IngredientTrue("is_vegan", call.arg[1])
    /\ call.res.consumed = 1
    /\ Len(call.res.log) = 1
    /\ ReturnedValue(call.res, FALSE)

\* the state shared by all requests: the vocabulary sets, the model references and
\* the verdict maps
Shared == <<VOCAB, KETO_MODEL, VEGAN_MODEL, _KETO_MAP, _VEGAN_MAP>>

RequestOps ==
    {"is_ingredient_keto", "is_ingredient_vegan", "is_keto", "is_vegan", "preprocess",
     "to_list"}

\* C22: no step in which is_ingredient_keto, is_ingredient_vegan, is_keto, is_vegan,
\* preprocess or to_list runs changes KETO_ALLOW, KETO_BLOCK, VEGAN_BLOCK, PLANT_BASES,
\* KETO_MODEL, VEGAN_MODEL, _KETO_MAP or _VEGAN_MAP.
C22_RequestsLeaveSharedState ==
    [][(module \in {"web", "nb"} /\ call'.op \in RequestOps) => UNCHANGED Shared]_vars

\* C22, its case: nb with loaded models and maps filled by _main, is_ingredient_keto
\* called with a string that has no entry, and the map still has no entry for it
C22_LookupOfUnseenString ==
    /\ NbCall("is_ingredient_keto")
    /\ Truthy(KETO_MODEL)
    /\ DOMAIN _KETO_MAP # {}
    /\ call.arg \notin DOMAIN _KETO_MAP
    /\ VOCAB = Vocabulary("nb")

\* how many times preprocess has run on raw
RunCount(ran, raw) == Cardinality({i \in DOMAIN ran : ran[i] = raw})

\* C23: preprocessing is memoized on the raw string: when the same raw ingredient has
\* been classified twice (with other classifications, or a run of _main, in between),
\* preprocess has run on it at most once.
C23_PreprocessAtMostOnce ==
    (module \in {"web", "nb"} /\ call.op = "second") => RunCount(call.ran, call.arg) <= 1

\* C23, the failing calls: web is_ingredient_keto("kale") called twice, and preprocess
\* ran on "kale" twice
C23_KalePreprocessedTwice ==
    /\ WebCall("second")
    /\ call.fn = "is_ingredient_keto"
    /\ call.arg = "kale"
    /\ call.between = <<>>
    /\ call.ran = <<"kale", "kale">>

\* C24: with the vocabularies, the models and (nb) the maps in place, whatever the
\* interleaving of the workers' calls, each call that has returned has the outcome it
\* has when run alone, so the outcomes, read by input position, are those of running
\* the calls one after the other.
C24_InterleavingKeepsVerdicts ==
    (module \in {"web", "nb"} /\ call.op = "workers") =>
        /\ \A w \in call.done : call.out[w] = call.alone[w]
        /\ call.done = DOMAIN call.tasks =>
              /\ call.out = call.alone
              /\ \A w \in DOMAIN call.tasks : ~call.out[w].raised

\* C24, its case: nb after _main filled the maps, two workers whose steps alternate,
\* both calls returned, the first of them true
C24_AlternatingWorkersDone ==
    /\ NbCall("workers")
    /\ DOMAIN _KETO_MAP # {}
    /\ call.done = {1, 2}
    /\ Len(call.trace) >= 3
    /\ call.trace[1] = 1 /\ call.trace[2] = 2 /\ call.trace[3] = 1
    /\ call.out[1].ret

(***************************************************************************)
(* Properties of scripts/gpt_decide_keto.py                                *)
(***************************************************************************)
LabelRun == module = "gpt_decide_keto"

\* the row numbers the output file holds, one per line written
WrittenIndices == [j \in DOMAIN call.file |-> call.file[j].orig_index]

\* C25: over any sequence of runs of gpt_decide_keto, each ended by completion or by
\* an abort, every source row index is written to the output file at most once; a
\* run requests labels only for rows whose index the output did not hold when it
\* started; and a run started after all rows are written makes no request.
C25_RestartIdempotent ==
    LabelRun =>
        /\ \A j1, j2 \in DOMAIN call.file :
              WrittenIndices[j1] = WrittenIndices[j2] => j1 = j2
        /\ call.asked \cap call.done_idx = {}
        /\ (call.exit # "none" /\ call.done_idx = DOMAIN call.src)
              => (call.pc = "off" /\ call.exit = "nothing" /\ call.asked = {})

\* C25, the failing run: rows 1 and 2 of the source are both "salt", GPT answers the
\* first batch with one record per prompt line, and the run that completed wrote
\* row 1 more than once
C25_RowWrittenTwice ==
    /\ LabelRun
    /\ Len(call.src) >= 2
    /\ call.src[1] = "salt" /\ call.src[2] = "salt"
    /\ call.exit = "done"
    /\ Cardinality({j \in DOMAIN call.file : call.file[j].orig_index = 1}) > 1

AllErrors(replies) == \A j \in DOMAIN replies : replies[j] = "error"

\* C26: a batch is requested at most MAX_RETRIES times, and label_batch returns at the
\* first reply it accepts; the run turns to label_one for each ingredient of the
\* batch only after MAX_RETRIES rejected batch replies; a call of label_one makes at
\* most MAX_RETRIES requests; when these fail too the run ends with RuntimeError and
\* no row of the failed batch is in the output file.
C26_RetriesThenFallback ==
    LabelRun =>
        /\ Len(call.replies) <= MAX_RETRIES
        /\ AllErrors(SubSeq(call.replies, 1, Len(call.replies) - 1))
        /\ call.pc = "label_batch" => AllErrors(call.replies)
        /\ call.pc = "fallback" =>
              (Len(call.replies) = MAX_RETRIES /\ AllErrors(call.replies))
        /\ Len(call.one_replies) <= MAX_RETRIES
        /\ AllErrors(SubSeq(call.one_replies, 1, Len(call.one_replies) - 1))
        /\ call.exit = "RuntimeError" =>
              /\ call.pc = "off"
              /\ Len(call.one_replies) = MAX_RETRIES /\ AllErrors(call.one_replies)
              /\ \A j \in DOMAIN call.file :
                    call.file[j].orig_index \notin Range(BatchOf(call))

\* C26, its case: the first batch was written, the three requests of the second
\* batch failed, then the three requests of label_one for its first ingredient, and
\* the run ended with RuntimeError
C26_SecondBatchFailed ==
    /\ LabelRun
    /\ call.exit = "RuntimeError"
    /\ call.start = BATCH_SIZE
    /\ Len(call.file) >= BATCH_SIZE
    /\ call.replies = <<"error", "error", "error">>
    /\ call.k = 1
    /\ call.one_replies = <<"error", "error", "error">>

(***************************************************************************)
(* Properties of the nb verdict maps                                       *)
(***************************************************************************)
\* C27: nb is_ingredient_keto / is_ingredient_vegan return false for every raw string
\* without an entry in _KETO_MAP / _VEGAN_MAP (before _main has filled the maps, or a
\* string the dataset does not hold), and is_keto / is_vegan of a list holding such a
\* string return false, whatever the vocabularies and the models say about it.
C27_NoEntryIsFalse ==
    /\ (NbCall("is_ingredient_keto") /\ call.arg \notin DOMAIN _KETO_MAP)
          => ReturnedValue(call.res, FALSE)
    /\ (NbCall("is_ingredient_vegan") /\ call.arg \notin DOMAIN _VEGAN_MAP)
          => ReturnedValue(call.res, FALSE)
    /\ (NbCall("is_keto") /\ \E i \in DOMAIN call.arg : call.arg[i] \notin DOMAIN _KETO_MAP)
          => ReturnedValue(call.res, FALSE)
    /\ (NbCall("is_vegan") /\ \E i \in DOMAIN call.arg : call.arg[i] \notin DOMAIN _VEGAN_MAP)
          => ReturnedValue(call.res, FALSE)

\* C27, its case: _main has filled the maps from a dataset without "eggs", the keto
\* rules allow "eggs" and the loaded model predicts 1 for it, and is_keto of a list
\* that ends with it returned false
C27_AllowedButUnseen ==
    /\ NbCall("is_keto")
    /\ DOMAIN _KETO_MAP # {}
    /\ call.arg = <<"kale", "eggs">>
    /\ "kale" \in DOMAIN _KETO_MAP /\ _KETO_MAP["kale"]
    /\ "eggs" \notin DOMAIN _KETO_MAP
    /\ NbKetoRule(preprocess("eggs")) = "allow"
    /\ Truthy(KETO_MODEL) /\ PredictOne(KETO_MODEL, preprocess("eggs")) = 1
    /\ ReturnedValue(call.res, FALSE)

\* C28: when _main has built the maps, every unique raw ingredient of the dataset has
\* an entry in _VEGAN_MAP, and the entry is the value web is_ingredient_vegan returns
\* for the same raw string with the same tagger and the same model.
C28_VeganMapMatchesWeb ==
    (NbCall("_main") /\ ~call.res.raised) =>
        /\ DOMAIN _VEGAN_MAP = NbUnique(call.arg)
        /\ \A r \in DOMAIN _VEGAN_MAP :
              /\ ~web_is_ingredient_vegan(r).raised
              /\ _VEGAN_MAP[r] = web_is_ingredient_vegan(r).ret

\* C28, its case: a dataset with an ingredient the plant-base rule decides against a
\* block token and one left to the batch prediction of a loaded model that predicts 0
C28_RuleAndModelEntries ==
    /\ NbCall("_main")
    /\ Truthy(VEGAN_MODEL)
    /\ DOMAIN _VEGAN_MAP = {"cooking spray", "almond butter"}
    /\ NbVeganRule(preprocess("almond butter")) = "plant"
    /\ LaterBlocked(preprocess("almond butter"))
    /\ _VEGAN_MAP["almond butter"]
    /\ NbVeganRule(preprocess("cooking spray")) = "svm"
    /\ ~_VEGAN_MAP["cooking spray"]
====
